---- MODULE Spec2Model ----
(***************************************************************************)
(* Librechain/agent: the firewall reconciler (agent/iptables_helper.py)    *)
(* and the locked periodic executor (agent/executor.py, exercised by       *)
(* tests/test_agent.py).                                                   *)
(*                                                                         *)
(* The packet-filter backend (agent/iptc_helper.py) and the executor are   *)
(* not part of the sources at hand; they are modelled from the interface   *)
(* description (spec.md, sections 4.1, 4.2 and 6).  Everything else is a   *)
(* transcription of iptables_helper.py, one backend call per step.         *)
(***************************************************************************)
EXTENDS Integers, Sequences, FiniteSets, TLC

VARIABLES
    fw,      \* fw[ipv6][chain] = [exists, rules]: the filter table of each family
    inv,     \* inv[w]: the reconciler call of writer w (position, locals, log)
    nfail,   \* number of backend errors injected so far
    exe,     \* exe[j]: the executor of job j (its loop task and its worker)
    lock,    \* lock[name]: the set of jobs holding the Locker of that name
    loop     \* the event loop: "idle" before spin(), "running", "stopped"

vars == <<fw, inv, nfail, exe, lock, loop>>

evars == <<exe, lock, loop>>

(***************************************************************************)
(* Names (iptables_helper.py:12-15) and rules                              *)
(***************************************************************************)
TABLE == "filter"
DROP_CHAIN == "WOTT_LOG_DROP"
OUTPUT_CHAIN == "WOTT_OUTPUT"
INPUT_CHAIN == "WOTT_INPUT"

\* The chains of the filter table the reconciler reads or writes.
ChainNames == {DROP_CHAIN, INPUT_CHAIN, OUTPUT_CHAIN, "INPUT", "OUTPUT"}

\* for target_chain, chain in ((INPUT_CHAIN, 'INPUT'), (OUTPUT_CHAIN, 'OUTPUT'))
BuiltinPairs == << <<INPUT_CHAIN, "INPUT">>, <<OUTPUT_CHAIN, "OUTPUT">> >>

\* get_rule's "no rule at that position"
NoRule == [none |-> TRUE]

\* jump_to_target = {'target': target_chain}
JumpRule(target_chain) == [target |-> target_chain]

\* The two static rules of the log-drop chain.
LogRule == [target |-> [LOG |-> [log_prefix |-> "DROP: ", log_level |-> "3"]]]
DropRule == [target |-> "DROP"]
StaticDropRules == <<LogRule, DropRule>>

\* The three (chain, rule, position) triples of add_block_rules.
LoopbackRule == [in_interface |-> "lo", target |-> "ACCEPT"]
ConntrackRule == [conntrack |-> [ctstate |-> "RELATED,ESTABLISHED"], target |-> "ACCEPT"]
\* add_block_rules inserting its DROP rule at position 3 instead of appending it
BlockTriplesDropThird ==
    << <<INPUT_CHAIN, LoopbackRule, 1>>,
       <<INPUT_CHAIN, ConntrackRule, 2>>,
       <<INPUT_CHAIN, DropRule, 3>> >>

\* add_block_rules appending its DROP rule before it inserts the accept rules
BlockTriplesDropFirst ==
    << <<INPUT_CHAIN, DropRule, 0>>,
       <<INPUT_CHAIN, LoopbackRule, 1>>,
       <<INPUT_CHAIN, ConntrackRule, 2>> >>

\* add_block_rules inserting both accept rules at position 1
BlockTriplesBothFirst ==
    << <<INPUT_CHAIN, LoopbackRule, 1>>,
       <<INPUT_CHAIN, ConntrackRule, 1>>,
       <<INPUT_CHAIN, DropRule, 0>> >>

BlockTriples ==
    << <<INPUT_CHAIN, LoopbackRule, 1>>,
       <<INPUT_CHAIN, ConntrackRule, 2>>,
       <<INPUT_CHAIN, DropRule, 0>> >>

(***************************************************************************)
(* Sequence helpers                                                        *)
(***************************************************************************)
InsertAt(s, i, e) == SubSeq(s, 1, i - 1) \o <<e>> \o SubSeq(s, i, Len(s))

RemoveAt(s, i) == SubSeq(s, 1, i - 1) \o SubSeq(s, i + 1, Len(s))

Positions(s, e) == {i \in 1..Len(s) : s[i] = e}

FirstPosition(s, e) == CHOOSE i \in Positions(s, e) : \A j \in Positions(s, e) : i <= j

RemoveFirst(s, e) == IF Positions(s, e) = {} THEN s ELSE RemoveAt(s, FirstPosition(s, e))

(***************************************************************************)
(* The firewall backend, from its interface                                *)
(***************************************************************************)
has_chain(f, chain, ipv6) == f[ipv6][chain].exists

add_chain(f, chain, ipv6) ==
    [f EXCEPT ![ipv6][chain] = [exists |-> TRUE, rules |-> <<>>]]

flush_chain(f, chain, ipv6) == [f EXCEPT ![ipv6][chain].rules = <<>>]

get_rule(f, chain, position, ipv6) ==
    IF position \in 1..Len(f[ipv6][chain].rules)
    THEN f[ipv6][chain].rules[position]
    ELSE NoRule

\* position 0 appends, position p >= 1 makes the rule the p-th of the chain
add_rule(f, chain, rule, position, ipv6) ==
    [f EXCEPT ![ipv6][chain].rules =
        IF position = 0 THEN Append(@, rule) ELSE InsertAt(@, position, rule)]

\* raise_exc = False: a missing rule is not an error, the chain is left as it is
delete_rule(f, chain, rule, ipv6) ==
    [f EXCEPT ![ipv6][chain].rules = RemoveFirst(@, rule)]

\* with chain=...: the chain's rule list becomes exactly `rules`
batch_add_rules(f, rules, chain, ipv6) ==
    [f EXCEPT ![ipv6][chain].rules = rules]

(***************************************************************************)
(* Rule derivation (iptables_helper.py:163-213)                            *)
(***************************************************************************)
Digits == <<"0", "1", "2", "3", "4", "5", "6", "7", "8", "9">>

\* str(port) for a non-negative port number
RECURSIVE str(_)
str(n) == IF n < 10 THEN Digits[n + 1] ELSE str(n \div 10) \o Digits[(n % 10) + 1]

\* remove_unspecified that knows the IPv4 sentinel only
remove_unspecified_v4(r) ==
    IF r.dst \in {"0.0.0.0"} THEN [key \in DOMAIN r \ {"dst"} |-> r[key]] ELSE r

\* remove_unspecified: the all-zeros hosts lose their 'dst' key
remove_unspecified(r) ==
    IF r.dst \in {"0.0.0.0", "::"} THEN [key \in DOMAIN r \ {"dst"} |-> r[key]] ELSE r

\* the comprehension with its two targets exchanged
PortRuleSwapped(allow, host, proto, port, ipv6) ==
    << remove_unspecified(
           (proto :> [dport |-> str(port)]) @@
           [protocol |-> proto,
            dst |-> host,
            target |-> IF allow THEN "ACCEPT" ELSE DROP_CHAIN]),
       ipv6 >>

\* One entry of block_ports' list comprehension: (rule, ipv6)
PortRule(allow, host, proto, port, ipv6) ==
    << remove_unspecified(
           (proto :> [dport |-> str(port)]) @@
           [protocol |-> proto,
            dst |-> host,
            target |-> IF allow THEN DROP_CHAIN ELSE "ACCEPT"]),
       ipv6 >>

PortRules(allow, ports_data) ==
    [i \in 1..Len(ports_data) |->
        PortRule(allow, ports_data[i][1], ports_data[i][2], ports_data[i][3], ports_data[i][4])]

\* block_networks' list comprehension: ({'dst': n, 'target': DROP_CHAIN}, ipv6)
NetworkRules(network_list) ==
    [i \in 1..Len(network_list) |->
        << [dst |-> network_list[i][1], target |-> DROP_CHAIN], network_list[i][2] >>]

\* add_rules with its test the wrong way round: `if ipv6 != is_ipv6`
rules_other(rules, ipv6) ==
    LET sel == SelectSeq(rules, LAMBDA e : e[2] # ipv6)
    IN  [i \in 1..Len(sel) |-> sel[i][1]]

\* add_rules without its `if ipv6 == is_ipv6`
rules_all(rules, ipv6) == [i \in 1..Len(rules) |-> rules[i][1]]

\* add_rules: rules_ipv = [rule for rule, is_ipv6 in rules if ipv6 == is_ipv6]
rules_ipv(rules, ipv6) ==
    LET kept == SelectSeq(rules, LAMBDA p : p[2] = ipv6)
    IN  [i \in 1..Len(kept) |-> kept[i][1]]

(***************************************************************************)
(* One call of the reconciler, as a step function.                         *)
(*                                                                         *)
(* l is the call's own state: op (the function called), pc (the backend    *)
(* call it is about to make), the loop variables ipv6, bi and k, the       *)
(* fields of the policy document read so far, the log and how it ended,    *)
(* and calls, the reconciler functions the call has entered, in order.     *)
(* f is the firewall, d the policy document.  A field of d is read where   *)
(* the code evaluates blocklist.get(...): policy on entry, block_networks  *)
(* after prepare(), block_ports or allow_ports in the branch taken.        *)
(***************************************************************************)
R(l, f) == [l |-> l, fw |-> f]

\* what a call keeps of the firewall it found on entry, to compare with later:
\* the built-in chains and the output-policy chain
Builtins(f) ==
    [ipv6 \in BOOLEAN |-> [c \in {"INPUT", "OUTPUT", OUTPUT_CHAIN} |-> f[ipv6][c].rules]]

\* a device nothing has touched yet
CleanFw ==
    [ipv6 \in BOOLEAN |->
        [c \in ChainNames |->
            [exists |-> c \in {"INPUT", "OUTPUT"}, rules |-> <<>>]]]

\* the log-drop chain of each family, as a call finds it
DropChains(f) == [ipv6 \in BOOLEAN |-> f[ipv6][DROP_CHAIN]]

NoPrev == [aborted |-> FALSE, policy |-> "", nets |-> <<>>, ports |-> <<>>, nread |-> 0]

IdleInv ==
    [op |-> "none", pc |-> "idle", ipv6 |-> FALSE, bi |-> 1, k |-> 1,
     policy |-> "", nets |-> <<>>, allow |-> FALSE, ports |-> <<>>, nread |-> 0,
     errors |-> 0, hint |-> FALSE, exc |-> "", calls |-> <<>>,
     before |-> Builtins(CleanFw), prev |-> NoPrev, again |-> FALSE, fw0 |-> CleanFw,
     drop0 |-> DropChains(CleanFw), insmod |-> FALSE, missing |-> {},
     seen |-> <<>>, tables |-> <<>>]

\* a call that is over: returned, or left by an exception
Rest == {"idle", "done", "raised"}

Done(l) == [l EXCEPT !.pc = "done"]

\* if jump_to_target != first_rule: delete_rule(...), then add_rule(..., 1)
JumpFixIfEmpty(jump_to_target, first_rule) ==
    IF first_rule = NoRule THEN "del_jump" ELSE "jump_ok"

JumpFixNoDelete(jump_to_target, first_rule) ==
    IF jump_to_target # first_rule THEN "add_jump" ELSE "jump_ok"

JumpFixAlways(jump_to_target, first_rule) == "add_jump"

\* the test the wrong way round: `if jump_to_target == first_rule:`
JumpFixWhenFirst(jump_to_target, first_rule) ==
    IF jump_to_target = first_rule THEN "del_jump" ELSE "jump_ok"

JumpFix(jump_to_target, first_rule) ==
    IF jump_to_target # first_rule THEN "del_jump" ELSE "jump_ok"

\* block(): what follows prepare()
AfterPrepare(l) ==
    IF l.op = "prepare" THEN Done(l) ELSE [l EXCEPT !.pc = "read_networks"]

\* the end of one pass of `for target_chain, chain in ...`, inside `for ipv6 in ...`
AfterJump(l) ==
    IF l.bi < Len(BuiltinPairs) THEN [l EXCEPT !.bi = @ + 1, !.pc = "get_first"]
    ELSE IF ~l.ipv6 THEN [l EXCEPT !.ipv6 = TRUE, !.bi = 1, !.pc = "has_drop"]
    ELSE AfterPrepare([l EXCEPT !.ipv6 = FALSE, !.bi = 1])

PreparePcs ==
    {"has_drop", "add_drop", "fill_drop", "has_input", "add_input", "flush_input",
     "has_output", "add_output", "flush_output", "get_first", "del_jump", "add_jump"}

\* a prepare() that takes the log-drop chain for granted
HasDropNextSkip(exists) == "has_input"

\* a prepare() that installs the two static rules also in a chain that exists
HasDropNextRefill(exists) == IF ~exists THEN "add_drop" ELSE "fill_drop"

\* `if not iptc_helper.has_chain(TABLE, DROP_CHAIN, ipv6=ipv6):` create and fill,
\* else go on to the input-policy chain
HasDropNext(exists) == IF ~exists THEN "add_drop" ELSE "has_input"

\* a prepare() that keeps the rules of an input-policy chain that exists
HasInputNextKeep(exists) == IF ~exists THEN "add_input" ELSE "has_output"

\* `if not has_chain(TABLE, INPUT_CHAIN): add_chain(...) else: flush_chain(...)`
HasInputNext(exists) == IF ~exists THEN "add_input" ELSE "flush_input"

\* a prepare() that keeps the rules of an output-policy chain that exists
HasOutputNextKeep(exists) == IF ~exists THEN "add_output" ELSE "get_first"

\* `if not has_chain(TABLE, OUTPUT_CHAIN): add_chain(...) else: flush_chain(...)`
HasOutputNext(exists) == IF ~exists THEN "add_output" ELSE "flush_output"

\* prepare(), one backend call at a time
PrepareStep(l, f) ==
    LET v6 == l.ipv6
        target_chain == BuiltinPairs[l.bi][1]
        chain == BuiltinPairs[l.bi][2]
        jump_to_target == JumpRule(target_chain)
        go(pc) == [l EXCEPT !.pc = pc]
    IN  CASE l.pc = "has_drop" ->
               R(go(HasDropNext(has_chain(f, DROP_CHAIN, v6))), f)
          [] l.pc = "add_drop" -> R(go("fill_drop"), add_chain(f, DROP_CHAIN, v6))
          [] l.pc = "fill_drop" ->
               R(go("has_input"), batch_add_rules(f, StaticDropRules, DROP_CHAIN, v6))
          [] l.pc = "has_input" ->
               R(go(HasInputNext(has_chain(f, INPUT_CHAIN, v6))), f)
          [] l.pc = "add_input" -> R(go("has_output"), add_chain(f, INPUT_CHAIN, v6))
          [] l.pc = "flush_input" -> R(go("has_output"), flush_chain(f, INPUT_CHAIN, v6))
          [] l.pc = "has_output" ->
               R(go(HasOutputNext(has_chain(f, OUTPUT_CHAIN, v6))), f)
          [] l.pc = "add_output" -> R(go("get_first"), add_chain(f, OUTPUT_CHAIN, v6))
          [] l.pc = "flush_output" -> R(go("get_first"), flush_chain(f, OUTPUT_CHAIN, v6))
          [] l.pc = "get_first" ->
               LET first_rule == get_rule(f, chain, 1, v6)
                   next == JumpFix(jump_to_target, first_rule)
               IN  R(IF next = "jump_ok" THEN AfterJump(l) ELSE go(next), f)
          [] l.pc = "del_jump" -> R(go("add_jump"), delete_rule(f, chain, jump_to_target, v6))
          [] l.pc = "add_jump" -> R(AfterJump(l), add_rule(f, chain, jump_to_target, 1, v6))

\* the branch with `else:` falling back to the "allow" behaviour
PolicyBranchElseAllow(l) ==
    IF l.op = "block_networks" THEN Done(l)
    ELSE [l EXCEPT !.pc = "read_ports"]

\* block(): the branch on policy that follows block_networks()
PolicyBranch(l) ==
    IF l.op = "block_networks" THEN Done(l)
    ELSE IF l.policy \in {"allow", "block"} THEN [l EXCEPT !.pc = "read_ports"]
    ELSE [l EXCEPT !.pc = "unknown_policy"]

\* the rules added to the end of the chain one by one
RECURSIVE AppendRules(_, _, _, _)
AppendRules(f, rules, chain, ipv6) ==
    IF rules = <<>> THEN f
    ELSE AppendRules(add_rule(f, chain, Head(rules), 0, ipv6), Tail(rules), chain, ipv6)

\* block_networks() adding its rules to the chain instead of submitting the batch
BlockNetworksStepAppend(l, f) ==
    R(IF ~l.ipv6 THEN [l EXCEPT !.ipv6 = TRUE] ELSE PolicyBranch([l EXCEPT !.ipv6 = FALSE]),
      AppendRules(f, rules_ipv(NetworkRules(l.nets), l.ipv6), OUTPUT_CHAIN, l.ipv6))

\* block_networks(): add_rules(TABLE, OUTPUT_CHAIN, rules), one batch per family
BlockNetworksStep(l, f) ==
    R(IF ~l.ipv6 THEN [l EXCEPT !.ipv6 = TRUE] ELSE PolicyBranch([l EXCEPT !.ipv6 = FALSE]),
      batch_add_rules(f, rules_ipv(NetworkRules(l.nets), l.ipv6), OUTPUT_CHAIN, l.ipv6))

\* add_block_rules() called whatever the policy
AfterPortsAlwaysBlockRules(l) ==
    IF l.op = "block"
    THEN [l EXCEPT !.pc = "block_rules", !.k = 1, !.calls = Append(@, "add_block_rules")]
    ELSE Done(l)

\* a block() that calls add_block_rules() under the policy "allow" instead
AfterPortsBlockRulesOnAllow(l) ==
    IF l.op = "block" /\ l.policy = "allow"
    THEN [l EXCEPT !.pc = "block_rules", !.k = 1, !.calls = Append(@, "add_block_rules")]
    ELSE Done(l)

\* block(): what follows block_ports()
AfterPorts(l) ==
    IF l.op = "block" /\ l.policy = "block"
    THEN [l EXCEPT !.pc = "block_rules", !.k = 1, !.calls = Append(@, "add_block_rules")]
    ELSE Done(l)

\* block_ports() adding its rules to the chain instead of submitting the batch
BlockPortsStepAppend(l, f) ==
    R(IF ~l.ipv6 THEN [l EXCEPT !.ipv6 = TRUE] ELSE AfterPorts([l EXCEPT !.ipv6 = FALSE]),
      AppendRules(f, rules_ipv(PortRules(l.allow, l.ports), l.ipv6), INPUT_CHAIN, l.ipv6))

\* block_ports(): add_rules(TABLE, INPUT_CHAIN, rules), one batch per family
BlockPortsStep(l, f) ==
    R(IF ~l.ipv6 THEN [l EXCEPT !.ipv6 = TRUE] ELSE AfterPorts([l EXCEPT !.ipv6 = FALSE]),
      batch_add_rules(f, rules_ipv(PortRules(l.allow, l.ports), l.ipv6), INPUT_CHAIN, l.ipv6))

\* add_block_rules(): the three inserts of one family's batch, then the next family
AddBlockRulesStep(l, f) ==
    LET t == BlockTriples[l.k]
    IN  R(IF l.k < Len(BlockTriples) THEN [l EXCEPT !.k = @ + 1]
          ELSE IF ~l.ipv6 THEN [l EXCEPT !.k = 1, !.ipv6 = TRUE]
          ELSE Done([l EXCEPT !.k = 1, !.ipv6 = FALSE]),
          add_rule(f, t[1], t[2], t[3], l.ipv6))

\* a lookup whose default for the policy is "block"
get_policy_block(d, key, default) ==
    IF key \in DOMAIN d THEN d[key] ELSE IF key = "policy" THEN "block" ELSE default

\* dict.get(key, default): the value of the key, or the default when the
\* document has no such key
get(d, key, default) == IF key \in DOMAIN d THEN d[key] ELSE default

\* blocklist.get('block_networks', [])
ReadNetworks(l, d) ==
    [l EXCEPT !.nets = get(d, "block_networks", <<>>), !.nread = 2, !.pc = "networks",
              !.calls = Append(@, "block_networks")]

\* block_ports(True, blocklist.get('block_ports', [])) or
\* block_ports(False, blocklist.get('allow_ports', []))
ReadPorts(l, d) ==
    [l EXCEPT !.allow = (l.policy = "allow"),
              !.ports = IF l.policy = "allow" THEN get(d, "block_ports", <<>>)
                        ELSE get(d, "allow_ports", <<>>),
              !.nread = 3,
              !.pc = "ports",
              !.calls = Append(@, "block_ports")]

\* logger.error('Error: unknown policy "{}"'.format(policy))
UnknownPolicy(l) == Done([l EXCEPT !.errors = @ + 1])

CallSites == PreparePcs \cup {"networks", "ports", "block_rules"}

ReadPcs == {"read_networks", "read_ports"}

Step(l, f, d) ==
    CASE l.pc \in PreparePcs -> PrepareStep(l, f)
      [] l.pc = "read_networks" -> R(ReadNetworks(l, d), f)
      [] l.pc = "networks" -> BlockNetworksStep(l, f)
      [] l.pc = "read_ports" -> R(ReadPorts(l, d), f)
      [] l.pc = "ports" -> BlockPortsStep(l, f)
      [] l.pc = "block_rules" -> AddBlockRulesStep(l, f)
      [] l.pc = "unknown_policy" -> R(UnknownPolicy(l), f)

\* the chain the backend call at l.pc works on
CallChain(l) ==
    CASE l.pc \in {"has_drop", "add_drop", "fill_drop"} -> DROP_CHAIN
      [] l.pc \in {"has_input", "add_input", "flush_input", "ports", "block_rules"} -> INPUT_CHAIN
      [] l.pc \in {"has_output", "add_output", "flush_output", "networks"} -> OUTPUT_CHAIN
      [] l.pc \in {"get_first", "del_jump", "add_jump"} -> BuiltinPairs[l.bi][2]

\* Backend calls that cannot succeed on f: creating a chain that exists, writing
\* to a chain that does not, inserting past the end of a chain.
MustFail(l, f) ==
    /\ l.pc \in CallSites
    /\ LET c == f[l.ipv6][CallChain(l)]
       IN  \/ l.pc \in {"add_drop", "add_input", "add_output"} /\ c.exists
           \/ l.pc \in {"fill_drop", "flush_input", "flush_output", "networks", "ports",
                        "block_rules"} /\ ~c.exists
           \/ l.pc = "block_rules" /\ BlockTriples[l.k][3] > Len(c.rules) + 1

\* What logger.debug(exc_info=True) does: Logger.debug(msg, *args, **kwargs) is
\* called without its positional msg.
LoggerDebugNoMsg == "TypeError"

\* block(): except iptc.IPTCError as e
ExceptHandler(l, insmod) ==
    LET logged == [l EXCEPT !.errors = @ + 1, !.insmod = insmod]
    IN  IF LoggerDebugNoMsg = "TypeError"
        THEN [logged EXCEPT !.pc = "raised", !.exc = "TypeError"]
        ELSE Done(IF insmod THEN [logged EXCEPT !.errors = @ + 1, !.hint = TRUE] ELSE logged)

\* A backend call raises iptc.IPTCError: block() handles it, the other
\* functions let it through to their caller.
Raise(l, insmod) ==
    IF l.op = "block" THEN ExceptHandler(l, insmod)
    ELSE [l EXCEPT !.pc = "raised", !.exc = "IPTCError"]

\* what the next call remembers of a call that a backend error ended
PrevOf(l) ==
    IF l.pc = "raised" /\ l.op = "block"
    THEN [aborted |-> TRUE, policy |-> l.policy, nets |-> l.nets, ports |-> l.ports,
          nread |-> l.nread]
    ELSE NoPrev

\* Entry to block(blocklist): policy = blocklist.get('policy', 'allow')
EnterBlock(l, f, d) ==
    [IdleInv EXCEPT !.op = "block", !.pc = "has_drop",
                    !.policy = get(d, "policy", "allow"), !.nread = 1,
                    !.before = Builtins(f), !.prev = PrevOf(l), !.calls = <<"prepare">>,
                    !.drop0 = DropChains(f)]

\* Entry to prepare().  `again` marks a call that directly follows a prepare()
\* that returned, and fw0 is then the firewall that first call left.
EnterPrepare(l, f) ==
    LET again == l.op = "prepare" /\ l.pc = "done"
    IN  [IdleInv EXCEPT !.op = "prepare", !.pc = "has_drop", !.before = Builtins(f),
                        !.again = again, !.fw0 = IF again THEN f ELSE CleanFw,
                        !.calls = <<"prepare">>, !.drop0 = DropChains(f)]

\* Entry to block_networks(network_list).  `again` marks a call that directly
\* follows a block_networks(network_list) that returned.
EnterBlockNetworks(l, f, network_list) ==
    LET again == l.op = "block_networks" /\ l.pc = "done" /\ l.nets = network_list
    IN  [IdleInv EXCEPT !.op = "block_networks", !.pc = "networks", !.nets = network_list,
                        !.before = Builtins(f), !.calls = <<"block_networks">>,
                        !.again = again, !.fw0 = IF again THEN f ELSE CleanFw]

\* Entry to block_ports(allow, ports_data).  fw0 is the firewall the call finds.
EnterBlockPorts(l, f, allow, ports_data) ==
    LET again == /\ l.op = "block_ports"
                 /\ l.pc = "done"
                 /\ l.allow = allow
                 /\ l.ports = ports_data
    IN  [IdleInv EXCEPT !.op = "block_ports", !.pc = "ports", !.allow = allow,
                        !.ports = ports_data, !.before = Builtins(f),
                        !.calls = <<"block_ports">>, !.again = again, !.fw0 = f]

\* Entry to add_block_rules().  fw0 is the firewall the call finds.
EnterAddBlockRules(l, f) ==
    LET again == l.op = "add_block_rules" /\ l.pc = "done"
    IN  [IdleInv EXCEPT !.op = "add_block_rules", !.pc = "block_rules",
                        !.before = Builtins(f), !.calls = <<"add_block_rules">>,
                        !.again = again, !.fw0 = f]

\* The call run to its end with every backend call succeeding (a call that
\* cannot succeed ends it with the exception).
RECURSIVE Run(_, _, _)
Run(l, f, d) ==
    IF l.pc \in Rest THEN R(l, f)
    ELSE IF MustFail(l, f) THEN R(Raise(l, FALSE), f)
    ELSE LET s == Step(l, f, d) IN Run(s.l, s.fw, d)

(***************************************************************************)
(* Inputs                                                                  *)
(***************************************************************************)
MaxNets == 2       \* longest block_networks list
MaxPorts == 2      \* longest block_ports / allow_ports list
MaxForeign == 2    \* rules other tools put into the built-in chains
MaxFail == 1       \* backend errors injected in one behaviour
MaxChain == 6      \* longest input-policy chain add_block_rules() is called to extend

Policies == {"allow", "block", "frobnicate"}

\* (network, ipv6)
NetPool == {<<"10.0.0.0/8", FALSE>>, <<"192.168.1.1", FALSE>>, <<"2001:db8::/32", TRUE>>}

\* (host, proto, port, ipv6)
PortPool ==
    {<<"0.0.0.0", "tcp", 22, FALSE>>, <<"192.168.1.1", "udp", 53, FALSE>>,
     <<"::", "tcp", 80, TRUE>>}

\* the lists of at most n distinct elements of S
Lists(S, n) ==
    {s \in UNION {[1..m -> S] : m \in 0..n} : \A i, j \in DOMAIN s : s[i] = s[j] => i = j}

NetLists == Lists(NetPool, MaxNets)

PortLists == Lists(PortPool, MaxPorts)

\* The documents block() is called with: D.field is the set of values the
\* field takes, and every combination of them is a document.
Docs ==
    [policy |-> Policies, block_networks |-> NetLists, block_ports |-> PortLists,
     allow_ports |-> PortLists]

\* the documents of the runs with backend errors
SmallDocs ==
    [policy |-> {"allow", "block"},
     block_networks |-> {<<>>, << <<"10.0.0.0/8", FALSE>> >>},
     block_ports |-> {<< <<"0.0.0.0", "tcp", 22, FALSE>> >>},
     allow_ports |-> {<< <<"::", "tcp", 80, TRUE>> >>}]

\* a document of D whose `field` is v
DocWith(D, field, v) ==
    [[k \in DOMAIN D |-> CHOOSE x \in D[k] : TRUE] EXCEPT ![field] = v]

\* the k-th rule another tool inserted
Foreign(k) == [target |-> "ACCEPT", comment |-> k]

ForeignCount(f) ==
    Cardinality({k \in 1..MaxForeign :
        \E ipv6 \in BOOLEAN, c \in {"INPUT", "OUTPUT"} :
            Positions(f[ipv6][c].rules, Foreign(k)) # {}})

\* the jobs of the executor tests: two under lock name "one", two under "two"
Jobs == {1, 2, 3, 4}

\* the jobs that call the reconciler
Writers == {1, 2}

LockNames == {"one", "two", "iptables"}

(***************************************************************************)
(* Actions of the reconciler                                               *)
(***************************************************************************)
\* writer w is called directly (no executor runs it) or is inside its job body
Driving(w) == exe[w].phase \in {"off", "body"}

\* block(d) called directly
Block(w, D) ==
    /\ exe[w].phase = "off"
    /\ inv[w].pc \in Rest
    /\ \E policy \in D.policy :
         inv' = [inv EXCEPT ![w] = EnterBlock(inv[w], fw, DocWith(D, "policy", policy))]
    /\ UNCHANGED <<fw, nfail, evars>>

\* prepare() called directly
CallPrepare(w) ==
    /\ exe[w].phase = "off"
    /\ inv[w].pc \in Rest
    /\ inv' = [inv EXCEPT ![w] = EnterPrepare(inv[w], fw)]
    /\ UNCHANGED <<fw, nfail, evars>>

\* block_networks(L) called directly
CallBlockNetworks(w, NL) ==
    /\ exe[w].phase = "off"
    /\ inv[w].pc \in Rest
    /\ \E L \in NL : inv' = [inv EXCEPT ![w] = EnterBlockNetworks(inv[w], fw, L)]
    /\ UNCHANGED <<fw, nfail, evars>>

\* block_ports(allow, P) called directly
CallBlockPorts(w, PL) ==
    /\ exe[w].phase = "off"
    /\ inv[w].pc \in Rest
    /\ \E allow \in BOOLEAN, P \in PL :
         inv' = [inv EXCEPT ![w] = EnterBlockPorts(inv[w], fw, allow, P)]
    /\ UNCHANGED <<fw, nfail, evars>>

\* add_block_rules() called directly, while the chain it extends is short
CallAddBlockRules(w) ==
    /\ exe[w].phase = "off"
    /\ inv[w].pc \in Rest
    /\ \A ipv6 \in BOOLEAN :
         Len(fw[ipv6][INPUT_CHAIN].rules) + Len(BlockTriples) <= MaxChain
    /\ inv' = [inv EXCEPT ![w] = EnterAddBlockRules(inv[w], fw)]
    /\ UNCHANGED <<fw, nfail, evars>>

\* the backend call at inv[w].pc succeeds
\* a reconciler that makes a backend call only while no other invocation is under way
AdvanceAlone(w, d) ==
    /\ Driving(w)
    /\ \A v \in Writers \ {w} : inv[v].pc \in Rest
    /\ ~MustFail(inv[w], fw)
    /\ LET s == Step(inv[w], fw, d)
       IN  /\ inv' = [inv EXCEPT ![w] = s.l]
           /\ fw' = s.fw
    /\ UNCHANGED <<nfail, evars>>

Advance(w, d) ==
    /\ Driving(w)
    /\ ~MustFail(inv[w], fw)
    /\ LET s == Step(inv[w], fw, d)
       IN  /\ inv' = [inv EXCEPT ![w] = s.l]
           /\ fw' = s.fw
    /\ UNCHANGED <<nfail, evars>>

AnyDoc == DocWith(SmallDocs, "policy", "allow")

Prepare(w) == inv[w].pc \in PreparePcs /\ Advance(w, AnyDoc)

\* the field of the document that the read at l.pc evaluates
FieldRead(l) ==
    IF l.pc = "read_networks" THEN "block_networks"
    ELSE IF l.policy = "allow" THEN "block_ports" ELSE "allow_ports"

ReadDocument(w, D) ==
    /\ inv[w].pc \in ReadPcs
    /\ \E v \in D[FieldRead(inv[w])] : Advance(w, DocWith(D, FieldRead(inv[w]), v))

BlockNetworks(w) == inv[w].pc = "networks" /\ Advance(w, AnyDoc)

BlockPorts(w) == inv[w].pc = "ports" /\ Advance(w, AnyDoc)

AddBlockRules(w) == inv[w].pc = "block_rules" /\ Advance(w, AnyDoc)

LogUnknownPolicy(w) == inv[w].pc = "unknown_policy" /\ Advance(w, AnyDoc)

\* The backend call at inv[w].pc raises iptc.IPTCError: because it cannot
\* succeed, or (at most `budget` times) for a reason outside the model.
BackendError(w, budget) ==
    /\ Driving(w)
    /\ inv[w].pc \in CallSites
    /\ \/ MustFail(inv[w], fw) /\ nfail' = nfail
       \/ ~MustFail(inv[w], fw) /\ nfail < budget /\ nfail' = nfail + 1
    /\ \E insmod \in BOOLEAN : inv' = [inv EXCEPT ![w] = Raise(inv[w], insmod)]
    /\ UNCHANGED <<fw, evars>>

\* Another tool inserts a rule of its own into a built-in chain, while no
\* reconciler call is under way.
External ==
    /\ \A w \in Writers : inv[w].pc \in Rest
    /\ ForeignCount(fw) < MaxForeign
    /\ \E ipv6 \in BOOLEAN, c \in {"INPUT", "OUTPUT"} :
         \E p \in 1..(Len(fw[ipv6][c].rules) + 1) :
            fw' = add_rule(fw, c, Foreign(ForeignCount(fw) + 1), p, ipv6)
    /\ inv' = [w \in Writers |-> [inv[w] EXCEPT !.pc = "idle"]]
    /\ UNCHANGED <<nfail, evars>>

(***************************************************************************)
(* The executor, idle                                                      *)
(***************************************************************************)
\* Executor(interval, func, fargs) of job j.  phase is where its loop task and
\* its worker stand:
\*   "off"         no executor runs the job
\*   "new"         constructed, not scheduled
\*   "waiting"     scheduled, asleep until its next tick
\*   "dispatched"  the body is on a worker, at the door of its Locker
\*   "entered"     past the Locker's acquisition (or no lock is used)
\*   "body"        the protected body runs: from its first to its last write
\*   "exit"        the body is over, the Locker not yet released
\* failed tells whether the body's last run ended with an exception, cancelled
\* whether the job's handle was cancelled, is_running whether its executor is
\* scheduled and not stopped.
OffExe ==
    [phase |-> "off", kind |-> "none", use_lock |-> FALSE, lockname |-> "one",
     cancelled |-> FALSE, is_running |-> FALSE, failed |-> FALSE]

InitExecutorOff ==
    /\ exe = [j \in Jobs |-> OffExe]
    /\ lock = [n \in LockNames |-> {}]
    /\ loop = "idle"

\* sleeper(lock, f, lockname) without its `if lock:`
SleeperNeverLocks(use_lock) == FALSE

\* sleeper(lock, f, lockname) taking the Locker whatever `lock` says
SleeperAlwaysLocks(use_lock) == TRUE

\* sleeper(lock, f, lockname): `if lock: with executor.Locker(lockname): _work(f)`
SleeperLocks(use_lock) == use_lock

\* a job that calls block() without a Locker around it
ReconcileJobUnlocked(j) == FALSE

\* the job that reconciles the firewall holds a Locker for the whole of block()
ReconcileJobLocks(j) == TRUE

\* the body of job j asks for its Locker
WantsLock(j) ==
    IF exe[j].kind = "block" THEN ReconcileJobLocks(j) ELSE SleeperLocks(exe[j].use_lock)

\* a Locker that is one lock for all names
LockFreeOfAnyName(name) == \A n \in LockNames : lock[n] = {}

\* Locker(name).__enter__ may return: nobody holds a Locker of that name
LockFree(name) == lock[name] = {}

\* a release written after the body instead of a `with`: skipped when the body raises
ReleasedOnReturnOnly(failed) == ~failed

\* `with executor.Locker(lockname):` leaves the Locker however the body ended
ReleasedOnExit(failed) == TRUE

\* a loop that does not look at the cancellation of the job's handle
MayTickThoughCancelled(e) == e.is_running

\* the loop of a job goes on while its executor runs and its handle is not cancelled
MayTick(e) == e.is_running /\ ~e.cancelled

\* executor.schedule(exe): the job's loop task is created
Schedule(j) ==
    /\ exe[j].phase = "new"
    /\ exe' = [exe EXCEPT ![j].phase = "waiting", ![j].is_running = TRUE]
    /\ UNCHANGED <<fw, inv, nfail, lock, loop>>

\* executor.spin(): the loop runs until stopped
Spin ==
    /\ loop = "idle"
    /\ \A j \in Jobs : exe[j].phase # "new"
    /\ loop' = "running"
    /\ UNCHANGED <<fw, inv, nfail, exe, lock>>

\* A tick of job j: the loop hands the body to a worker.
\* an executor that runs the bodies on the loop's own thread: no tick while the
\* body of any job is in progress
TickOnLoopThread(j) ==
    /\ loop = "running"
    /\ \A i \in Jobs : exe[i].phase \in {"off", "new", "waiting"}
    /\ exe[j].phase = "waiting"
    /\ MayTick(exe[j])
    /\ exe' = [exe EXCEPT ![j].phase = "dispatched"]
    /\ UNCHANGED <<fw, inv, nfail, lock, loop>>

Tick(j) ==
    /\ loop = "running"
    /\ exe[j].phase = "waiting"
    /\ MayTick(exe[j])
    /\ exe' = [exe EXCEPT ![j].phase = "dispatched"]
    /\ UNCHANGED <<fw, inv, nfail, lock, loop>>

\* The worker enters the body's Locker (blocking until nobody holds the name),
\* or goes on without one.
Acquire(j) ==
    /\ exe[j].phase = "dispatched"
    /\ IF WantsLock(j)
       THEN /\ LockFree(exe[j].lockname)
            /\ lock' = [lock EXCEPT ![exe[j].lockname] = @ \cup {j}]
       ELSE lock' = lock
    /\ exe' = [exe EXCEPT ![j].phase = "entered"]
    /\ UNCHANGED <<fw, inv, nfail, loop>>

\* _work(f) starts: it writes its begin timestamp
SleeperBegin(j) ==
    /\ exe[j].kind = "sleeper"
    /\ exe[j].phase = "entered"
    /\ exe' = [exe EXCEPT ![j].phase = "body"]
    /\ UNCHANGED <<fw, inv, nfail, lock, loop>>

\* _work(f) ends: it has slept and writes its end timestamp
SleeperEnd(j) ==
    /\ exe[j].kind = "sleeper"
    /\ exe[j].phase = "body"
    /\ exe' = [exe EXCEPT ![j].phase = "exit", ![j].failed = FALSE]
    /\ UNCHANGED <<fw, inv, nfail, lock, loop>>

\* _work(f) ends with an exception (its file cannot be written)
SleeperFail(j) ==
    /\ exe[j].kind = "sleeper"
    /\ exe[j].phase = "body"
    /\ exe' = [exe EXCEPT ![j].phase = "exit", ![j].failed = TRUE]
    /\ UNCHANGED <<fw, inv, nfail, lock, loop>>

\* the reconciling job calls block(d) with the document it fetched
JobCallsBlock(j, D) ==
    /\ exe[j].kind = "block"
    /\ exe[j].phase = "entered"
    /\ \E policy \in D.policy :
         inv' = [inv EXCEPT ![j] = EnterBlock(inv[j], fw, DocWith(D, "policy", policy))]
    /\ exe' = [exe EXCEPT ![j].phase = "body"]
    /\ UNCHANGED <<fw, nfail, lock, loop>>

\* block(d) is over
JobLeavesBlock(j) ==
    /\ exe[j].kind = "block"
    /\ exe[j].phase = "body"
    /\ inv[j].pc \in Rest
    /\ exe' = [exe EXCEPT ![j].phase = "exit", ![j].failed = (inv[j].pc = "raised")]
    /\ UNCHANGED <<fw, inv, nfail, lock, loop>>

\* The Locker is left (its release), and the loop task sleeps until the next tick.
\* a release that frees the name, whoever holds it
release_by_name(l, name, j) == [l EXCEPT ![name] = {}]

\* release(handle): the handle of holder j on `name` is given up; a handle that is
\* no longer held gives up nothing
release(l, name, j) == [l EXCEPT ![name] = @ \ {j}]

Release(j) ==
    /\ exe[j].phase = "exit"
    /\ lock' = IF ReleasedOnExit(exe[j].failed)
               THEN release(lock, exe[j].lockname, j)
               ELSE lock
    /\ exe' = [exe EXCEPT ![j].phase = "waiting"]
    /\ UNCHANGED <<fw, inv, nfail, loop>>

\* cancel(handle) of one job: fut.cancel()
Cancel(j) ==
    /\ loop = "running"
    /\ exe[j].phase # "off"
    /\ ~exe[j].cancelled
    /\ exe' = [exe EXCEPT ![j].cancelled = TRUE]
    /\ UNCHANGED <<fw, inv, nfail, lock, loop>>

\* stop() of the executors: exe.stop() for every job, the loop left running
Stop ==
    /\ loop = "running"
    /\ \E j \in Jobs : exe[j].is_running
    /\ exe' = [j \in Jobs |-> [exe[j] EXCEPT !.is_running = FALSE]]
    /\ UNCHANGED <<fw, inv, nfail, lock, loop>>

\* a stop_exe() that also takes the bodies off their workers and frees their locks
StopAllInterrupting ==
    /\ loop = "running"
    /\ exe' = [j \in Jobs |->
                 IF exe[j].phase = "off" THEN exe[j]
                 ELSE [exe[j] EXCEPT !.cancelled = TRUE, !.is_running = FALSE,
                                     !.phase = "waiting"]]
    /\ lock' = [n \in LockNames |-> {}]
    /\ loop' = "stopped"
    /\ UNCHANGED <<fw, inv, nfail>>

\* the body releases its handle itself, before the scoped exit does
ReleaseEarly(j) ==
    /\ exe[j].phase = "exit"
    /\ lock' = release(lock, exe[j].lockname, j)
    /\ exe' = [exe EXCEPT ![j].phase = "released"]
    /\ UNCHANGED <<fw, inv, nfail, loop>>

\* release of a handle that was released already
ReleaseAgain(j) ==
    /\ exe[j].phase \in {"released", "rereleased"}
    /\ lock' = release(lock, exe[j].lockname, j)
    /\ exe' = [exe EXCEPT ![j].phase = "rereleased"]
    /\ UNCHANGED <<fw, inv, nfail, loop>>

\* the execution is over, the job waits for its next tick
Return(j) ==
    /\ exe[j].phase = "rereleased"
    /\ exe' = [exe EXCEPT ![j].phase = "waiting"]
    /\ UNCHANGED <<fw, inv, nfail, lock, loop>>

\* stop_exe(): every future is cancelled, every executor stopped, the loop stopped.
\* Bodies on a worker are left to run.
StopAll ==
    /\ loop = "running"
    /\ exe' = [j \in Jobs |->
                 IF exe[j].phase = "off" THEN exe[j]
                 ELSE [exe[j] EXCEPT !.cancelled = TRUE, !.is_running = FALSE]]
    /\ loop' = "stopped"
    /\ UNCHANGED <<fw, inv, nfail, lock>>

(***************************************************************************)
(* Spec: one caller of the reconciler, every backend call succeeding       *)
(***************************************************************************)
Init ==
    /\ fw = CleanFw
    /\ inv = [w \in Writers |-> IdleInv]
    /\ nfail = 0
    /\ InitExecutorOff

Next ==
    \/ Block(1, Docs)
    \/ CallPrepare(1)
    \/ CallBlockNetworks(1, NetLists)
    \/ Prepare(1)
    \/ ReadDocument(1, Docs)
    \/ BlockNetworks(1)
    \/ BlockPorts(1)
    \/ AddBlockRules(1)
    \/ LogUnknownPolicy(1)
    \/ BackendError(1, 0)

Spec == Init /\ [][Next]_vars

(***************************************************************************)
(* SpecHeal: one caller, and other tools writing to the built-in chains    *)
(* between its calls                                                       *)
(***************************************************************************)
NextHeal ==
    \/ Block(1, SmallDocs)
    \/ CallPrepare(1)
    \/ Prepare(1)
    \/ ReadDocument(1, SmallDocs)
    \/ BlockNetworks(1)
    \/ BlockPorts(1)
    \/ AddBlockRules(1)
    \/ External

SpecHeal == Init /\ [][NextHeal]_vars

(***************************************************************************)
(* SpecFail: one caller, backend calls that may raise                      *)
(***************************************************************************)
NextFail ==
    \/ Block(1, SmallDocs)
    \/ Prepare(1)
    \/ ReadDocument(1, SmallDocs)
    \/ BlockNetworks(1)
    \/ BlockPorts(1)
    \/ AddBlockRules(1)
    \/ BackendError(1, MaxFail)

SpecFail == Init /\ [][NextFail]_vars

(***************************************************************************)
(* SpecSteps: the four steps called one by one, in any order               *)
(***************************************************************************)
NextSteps ==
    \/ CallPrepare(1)
    \/ CallBlockNetworks(1, NetLists)
    \/ CallBlockPorts(1, PortLists)
    \/ CallAddBlockRules(1)
    \/ Prepare(1)
    \/ BlockNetworks(1)
    \/ BlockPorts(1)
    \/ AddBlockRules(1)
    \/ BackendError(1, 0)

SpecSteps == Init /\ [][NextSteps]_vars

(***************************************************************************)
(* SpecExec: _is_parallel(tmpdir, use_lock, use_pairs), the executor test  *)
(***************************************************************************)
NewSleeper(use_lock, lockname) ==
    [phase |-> "new", kind |-> "sleeper", use_lock |-> use_lock, lockname |-> lockname,
     cancelled |-> FALSE, is_running |-> FALSE, failed |-> FALSE]

InitExec ==
    /\ fw = CleanFw
    /\ inv = [w \in Writers |-> IdleInv]
    /\ nfail = 0
    /\ \E use_lock \in BOOLEAN, use_pairs \in BOOLEAN :
         exe = [j \in Jobs |->
                  IF j \in {1, 2} THEN NewSleeper(use_lock, "one")
                  ELSE IF use_pairs THEN NewSleeper(use_lock, "two")
                  ELSE OffExe]
    /\ lock = [n \in LockNames |-> {}]
    /\ loop = "idle"

NextExec ==
    \/ \E j \in Jobs : Schedule(j)
    \/ Spin
    \/ \E j \in Jobs : Tick(j)
    \/ \E j \in Jobs : Acquire(j)
    \/ \E j \in Jobs : SleeperBegin(j)
    \/ \E j \in Jobs : SleeperEnd(j)
    \/ \E j \in Jobs : SleeperFail(j)
    \/ \E j \in Jobs : Release(j)
    \/ \E j \in Jobs : Cancel(j)
    \/ Stop
    \/ StopAll

SpecExec == InitExec /\ [][NextExec]_vars

(***************************************************************************)
(* SpecLocked: two scheduled jobs that reconcile the firewall under one    *)
(* lock name                                                               *)
(***************************************************************************)
NewReconcileJob ==
    [phase |-> "new", kind |-> "block", use_lock |-> TRUE, lockname |-> "iptables",
     cancelled |-> FALSE, is_running |-> FALSE, failed |-> FALSE]

InitLocked ==
    /\ fw = CleanFw
    /\ inv = [w \in Writers |-> IdleInv]
    /\ nfail = 0
    /\ exe = [j \in Jobs |-> IF j \in Writers THEN NewReconcileJob ELSE OffExe]
    /\ lock = [n \in LockNames |-> {}]
    /\ loop = "idle"

NextLocked ==
    \/ \E j \in Writers : Schedule(j)
    \/ Spin
    \/ \E j \in Writers : Tick(j)
    \/ \E j \in Writers : Acquire(j)
    \/ \E j \in Writers : JobCallsBlock(j, SmallDocs)
    \/ \E j \in Writers : Prepare(j)
    \/ \E j \in Writers : ReadDocument(j, SmallDocs)
    \/ \E j \in Writers : BlockNetworks(j)
    \/ \E j \in Writers : BlockPorts(j)
    \/ \E j \in Writers : AddBlockRules(j)
    \/ \E j \in Writers : JobLeavesBlock(j)
    \/ \E j \in Writers : Release(j)
    \/ StopAll

SpecLocked == InitLocked /\ [][NextLocked]_vars

(***************************************************************************)
(* SpecInFlight: one reconciling job, cancelled or stopped at any moment,  *)
(* with backend calls that may fail.  The worker is fair: a body handed to *)
(* a worker goes on running.                                               *)
(***************************************************************************)
\* one step of the body of job j on its worker, up to leaving its Locker
BodyStep(j) ==
    \/ Prepare(j)
    \/ ReadDocument(j, SmallDocs)
    \/ BlockNetworks(j)
    \/ BlockPorts(j)
    \/ AddBlockRules(j)
    \/ JobLeavesBlock(j)
    \/ Release(j)

InitInFlight ==
    /\ fw = CleanFw
    /\ inv = [w \in Writers |-> IdleInv]
    /\ nfail = 0
    /\ exe = [j \in Jobs |-> IF j = 1 THEN NewReconcileJob ELSE OffExe]
    /\ lock = [n \in LockNames |-> {}]
    /\ loop = "idle"

NextInFlight ==
    \/ Schedule(1)
    \/ Spin
    \/ Tick(1)
    \/ Acquire(1)
    \/ JobCallsBlock(1, SmallDocs)
    \/ BodyStep(1)
    \/ BackendError(1, MaxFail)
    \/ Cancel(1)
    \/ Stop
    \/ StopAll

SpecInFlight ==
    /\ InitInFlight
    /\ [][NextInFlight]_vars
    /\ WF_vars(BodyStep(1))

(***************************************************************************)
(* SpecTicks: four periodic sleeper jobs, 1 and 2 under the lock "one",    *)
(* 3 and 4 under the lock "two".  The loop and the workers of jobs 3 and 4 *)
(* are fair; the bodies of jobs 1 and 2 may stay blocked for ever.         *)
(***************************************************************************)
FairJobs == {3, 4}

InitTicks ==
    /\ fw = CleanFw
    /\ inv = [w \in Writers |-> IdleInv]
    /\ nfail = 0
    /\ exe = [j \in Jobs |-> NewSleeper(TRUE, IF j \in FairJobs THEN "two" ELSE "one")]
    /\ lock = [n \in LockNames |-> {}]
    /\ loop = "idle"

NextTicks ==
    \/ \E j \in Jobs : Schedule(j)
    \/ Spin
    \/ \E j \in Jobs : Tick(j)
    \/ \E j \in Jobs : Acquire(j)
    \/ \E j \in Jobs : SleeperBegin(j)
    \/ \E j \in Jobs : SleeperEnd(j)
    \/ \E j \in Jobs : Release(j)

SpecTicks ==
    /\ InitTicks
    /\ [][NextTicks]_vars
    /\ \A j \in FairJobs :
          /\ WF_vars(Tick(j))
          /\ SF_vars(Acquire(j))
          /\ WF_vars(SleeperBegin(j))
          /\ WF_vars(SleeperEnd(j))
          /\ WF_vars(Release(j))

(***************************************************************************)
(* SpecRelease: sleeper jobs whose handle may be released more than once;  *)
(* jobs 1 and 2 share the lock "one", job 3 uses the lock "two".           *)
(***************************************************************************)
InitRelease ==
    /\ fw = CleanFw
    /\ inv = [w \in Writers |-> IdleInv]
    /\ nfail = 0
    /\ exe = [j \in Jobs |-> IF j \in {1, 2} THEN NewSleeper(TRUE, "one")
                             ELSE IF j = 3 THEN NewSleeper(TRUE, "two")
                             ELSE OffExe]
    /\ lock = [n \in LockNames |-> {}]
    /\ loop = "idle"

NextRelease ==
    \/ \E j \in Jobs : Schedule(j)
    \/ Spin
    \/ \E j \in Jobs : Tick(j)
    \/ \E j \in Jobs : Acquire(j)
    \/ \E j \in Jobs : SleeperBegin(j)
    \/ \E j \in Jobs : SleeperEnd(j)
    \/ \E j \in Jobs : Release(j)
    \/ \E j \in Jobs : ReleaseEarly(j)
    \/ \E j \in Jobs : ReleaseAgain(j)
    \/ \E j \in Jobs : Return(j)

SpecRelease == InitRelease /\ [][NextRelease]_vars

(***************************************************************************)
(* SpecUnlocked: two callers, each calling block() once with a document of *)
(* its own and without any lock; their backend calls interleave.           *)
(***************************************************************************)
\* the document of each caller
UnlockedDocs ==
    << [policy |-> {"block"},
        block_networks |-> {<< <<"10.0.0.0/8", FALSE>> >>},
        block_ports |-> {<<>>},
        allow_ports |-> {<< <<"0.0.0.0", "tcp", 22, FALSE>> >>}],
       [policy |-> {"allow"},
        block_networks |-> {<< <<"192.168.0.0/16", FALSE>> >>},
        block_ports |-> {<< <<"0.0.0.0", "tcp", 80, FALSE>> >>},
        allow_ports |-> {<<>>}] >>

\* the first and only call of block() by caller w
BlockOnce(w) == inv[w].pc = "idle" /\ Block(w, UnlockedDocs[w])

\* the next step of the block() of caller w, whichever it is
BlockStep(w) ==
    \/ Prepare(w)
    \/ ReadDocument(w, UnlockedDocs[w])
    \/ BlockNetworks(w)
    \/ BlockPorts(w)
    \/ AddBlockRules(w)
    \/ BackendError(w, 0)

NextUnlocked ==
    \/ \E w \in Writers : BlockOnce(w)
    \/ \E w \in Writers : BlockStep(w)

SpecUnlocked == Init /\ [][NextUnlocked]_vars

(***************************************************************************)
(* SpecHistory: block() called again and again, every backend call         *)
(* succeeding; each invocation remembers the firewall it found (fw0).      *)
(***************************************************************************)
\* the documents of the repeated calls: every policy, every port list, and a
\* network list that is empty or has one network of either family
HistoryDocs ==
    [policy |-> Policies,
     block_networks |-> {<<>>, << <<"10.0.0.0/8", FALSE>> >>, << <<"2001:db8::/32", TRUE>> >>},
     block_ports |-> PortLists,
     allow_ports |-> PortLists]

\* block(d) called on the device as the earlier calls left it
BlockAgain(w, D) ==
    /\ exe[w].phase = "off"
    /\ inv[w].pc \in Rest
    /\ \E policy \in D.policy :
         inv' = [inv EXCEPT ![w] =
                    [EnterBlock(inv[w], fw, DocWith(D, "policy", policy))
                        EXCEPT !.fw0 = fw, !.again = inv[w].pc = "done"]]
    /\ UNCHANGED <<fw, nfail, evars>>

NextHistory ==
    \/ BlockAgain(1, HistoryDocs)
    \/ Prepare(1)
    \/ ReadDocument(1, HistoryDocs)
    \/ BlockNetworks(1)
    \/ BlockPorts(1)
    \/ AddBlockRules(1)
    \/ LogUnknownPolicy(1)

SpecHistory == Init /\ [][NextHistory]_vars

(***************************************************************************)
(* SpecDefaults: block() called with documents that lack any of their keys *)
(***************************************************************************)
DocKeys == {"policy", "block_networks", "block_ports", "allow_ports"}

\* the values of the keys that a document has
DefaultDocs ==
    [policy |-> {"allow", "block"},
     block_networks |-> {<< <<"10.0.0.0/8", FALSE>> >>},
     block_ports |-> {<< <<"0.0.0.0", "tcp", 22, FALSE>> >>},
     allow_ports |-> {<< <<"::", "tcp", 80, TRUE>> >>}]

\* document d without the keys of K
Without(d, K) == [k \in DOMAIN d \ K |-> d[k]]

\* block(blocklist) for a blocklist that lacks the keys of some set K
BlockPartial(w, D) ==
    /\ exe[w].phase = "off"
    /\ inv[w].pc \in Rest
    /\ \E K \in SUBSET DocKeys : \E policy \in D.policy :
         inv' = [inv EXCEPT ![w] =
                    [EnterBlock(inv[w], fw, Without(DocWith(D, "policy", policy), K))
                        EXCEPT !.missing = K]]
    /\ UNCHANGED <<fw, nfail, evars>>

\* a blocklist.get(...) of that blocklist
ReadPartial(w, D) ==
    /\ inv[w].pc \in ReadPcs
    /\ \E v \in D[FieldRead(inv[w])] :
         Advance(w, Without(DocWith(D, FieldRead(inv[w]), v), inv[w].missing))

NextDefaults ==
    \/ BlockPartial(1, DefaultDocs)
    \/ Prepare(1)
    \/ ReadPartial(1, DefaultDocs)
    \/ BlockNetworks(1)
    \/ BlockPorts(1)
    \/ AddBlockRules(1)

SpecDefaults == Init /\ [][NextDefaults]_vars

(***************************************************************************)
(* dump() (iptables_helper.py:84-99) and SpecDump: dump() called between   *)
(* calls of block().  The filter table is fw; the policies of its built-in *)
(* chains and the nat and mangle tables belong to the kernel and are what  *)
(* the backend reads of them (seen).                                       *)
(***************************************************************************)
\* Python's None, returned by get_policy for a chain without default verdict
None == "None"

TableNames == {"filter", "nat", "mangle"}

\* a nat or mangle table as the backend may find it: chain |-> [rules, policy]
OtherTables ==
    { [PREROUTING |-> [rules |-> <<>>, policy |-> "ACCEPT"],
       OUTPUT |-> [rules |-> <<Foreign(1)>>, policy |-> "DROP"]],
      [OUTPUT |-> [rules |-> <<Foreign(1), Foreign(2)>>, policy |-> "ACCEPT"],
       WOTT_OUTPUT |-> [rules |-> <<Foreign(2)>>, policy |-> None],
       WOTT_INPUT |-> [rules |-> <<Foreign(1)>>, policy |-> None]] }

\* what the backend reads of the kernel state that fw does not hold
KernelReads ==
    [BOOLEAN -> [filter_policy : {"ACCEPT", "DROP"}, nat : OtherTables, mangle : OtherTables]]

\* iptc_helper.dump_table(table_name, ipv6): chain name |-> list of rules
dump_table(f, seen, table_name, ipv6) ==
    IF table_name = TABLE
    THEN [c \in {c \in ChainNames : f[ipv6][c].exists} |-> f[ipv6][c].rules]
    ELSE [c \in DOMAIN seen[ipv6][table_name] |-> seen[ipv6][table_name][c].rules]

\* iptc_helper.get_policy(table_name, chain_name, ipv6)
get_policy(f, seen, table_name, chain_name, ipv6) ==
    IF table_name = TABLE
    THEN IF chain_name \in {"INPUT", "OUTPUT"} THEN seen[ipv6].filter_policy ELSE None
    ELSE seen[ipv6][table_name][chain_name].policy

\* a dump() that reports the rules of every chain
dumped_rules_all(chain_name, chain) == chain

\* [rule for rule in chain if chain_name != OUTPUT_CHAIN]
dumped_rules(chain_name, chain) == IF chain_name # OUTPUT_CHAIN THEN chain ELSE <<>>

\* if policy: rules['policy'] = policy
with_policy(rules, policy) == IF policy # None THEN rules @@ [policy |-> policy] ELSE rules

\* dump(): tables['v6' if ipv6 else 'v4'][table_name] = chains
dump(f, seen) ==
    [family \in {"v6", "v4"} |->
        [table_name \in TableNames |->
            LET ipv6 == family = "v6"
                table == dump_table(f, seen, table_name, ipv6)
            IN  [chain_name \in DOMAIN table |->
                    with_policy([rules |-> dumped_rules(chain_name, table[chain_name])],
                                get_policy(f, seen, table_name, chain_name, ipv6))]]]

\* dump() called and returned
CallDump(w) ==
    /\ exe[w].phase = "off"
    /\ inv[w].pc \in Rest
    /\ \E seen \in KernelReads :
         inv' = [inv EXCEPT ![w] =
                    [IdleInv EXCEPT !.op = "dump", !.pc = "done", !.seen = seen,
                                    !.tables = dump(fw, seen)]]
    /\ UNCHANGED <<fw, nfail, evars>>

NextDump ==
    \/ Block(1, SmallDocs)
    \/ Prepare(1)
    \/ ReadDocument(1, SmallDocs)
    \/ BlockNetworks(1)
    \/ BlockPorts(1)
    \/ AddBlockRules(1)
    \/ CallDump(1)

SpecDump == Init /\ [][NextDump]_vars

(***************************************************************************)
(* Claims                                                                  *)
(***************************************************************************)
\* C1: at most one job body is inside a Locker of a given name, and two jobs
\* scheduled under the same lock name never have their bodies both between the
\* begin and the end write (their [start, end] intervals do not overlap).
C1_MutualExclusion ==
    /\ \A n \in LockNames :
          Cardinality({j \in Jobs : exe[j].lockname = n /\ exe[j].use_lock
                                       /\ exe[j].phase \in {"entered", "body", "exit"}}) <= 1
    /\ \A i, j \in Jobs :
          (/\ i # j
           /\ exe[i].use_lock
           /\ exe[j].use_lock
           /\ exe[i].lockname = exe[j].lockname)
          => ~(exe[i].phase = "body" /\ exe[j].phase = "body")

\* C1 witness: the body of job 1 runs under lock name "one" while job 2, ticked
\* meanwhile, stands at the door of the same Locker.
C1_Witness ==
    /\ exe[1].use_lock
    /\ exe[1].phase = "body"
    /\ exe[2].use_lock
    /\ exe[2].phase = "dispatched"
    /\ exe[1].lockname = "one"
    /\ exe[2].lockname = "one"
    /\ lock["one"] = {1}

\* C2: when both jobs that call block() hold the same named lock for the whole
\* call, two block() calls are never under way at once: no backend call of one
\* falls between the first and the last backend call of the other.
C2_NoInterleaving ==
    \A i, j \in Writers :
        i # j => ~(inv[i].pc \notin Rest /\ inv[j].pc \notin Rest)

\* C2 witness: job 1 is in the middle of a block() (about to submit the IPv6
\* networks) after job 2 completed one, and job 2, ticked again, waits for the lock.
C2_Witness ==
    /\ inv[1].pc = "networks"
    /\ inv[1].ipv6
    /\ inv[2].pc = "done"
    /\ exe[2].phase = "dispatched"
    /\ lock["iptables"] = {1}

\* C3: whenever a backend call of block() raises a backend error, block() logs it
\* and returns normally: no exception leaves block().
C3_NoExceptionEscapes ==
    \A w \in Writers : inv[w].op = "block" => inv[w].pc # "raised"

\* the document of a block() call that has read all it reads
DocOf(l) ==
    [policy |-> l.policy,
     block_networks |-> l.nets,
     block_ports |-> IF l.policy = "allow" THEN l.ports ELSE <<>>,
     allow_ports |-> IF l.policy = "block" THEN l.ports ELSE <<>>]

\* what the aborted call read of its document agrees with the document of l
SameDocument(prev, l) ==
    /\ prev.policy = l.policy
    /\ prev.nread >= 2 => prev.nets = l.nets
    /\ prev.nread >= 3 => prev.ports = l.ports

\* block(d) on a device nothing has touched, every backend call succeeding
CleanResult(d) == Run(EnterBlock(IdleInv, CleanFw, d), CleanFw, d).fw

\* C4: when a block(d) that a backend error aborted is followed by a block(d) whose
\* backend calls all succeed, every chain of both families is as a block(d) that
\* succeeded on a clean device leaves it.
C4_Reconverges ==
    \A w \in Writers :
        (/\ inv[w].op = "block"
         /\ inv[w].pc = "done"
         /\ inv[w].prev.aborted
         /\ SameDocument(inv[w].prev, inv[w]))
        => fw = CleanResult(DocOf(inv[w]))

\* the networks of list L that belong to one family, in the order of L
NetsOfFamily(L, ipv6) == SelectSeq(L, LAMBDA e : e[2] = ipv6)

\* block_networks has submitted both families' lists
NetworksDone(l) ==
    \/ l.op = "block_networks" /\ l.pc = "done"
    \/ l.op = "block" /\ l.pc \in {"read_ports", "unknown_policy"}

\* C5: after block_networks(L) the output-policy chain of each family holds exactly
\* one rule {dst: n, target: WOTT_LOG_DROP} per network n of that family in L, in
\* the order of L, whatever it held before (nothing for a family without entry).
C5_FullReplace ==
    \A w \in Writers :
        NetworksDone(inv[w]) =>
            \A ipv6 \in BOOLEAN :
                LET want == NetsOfFamily(inv[w].nets, ipv6)
                    got == fw[ipv6]["WOTT_OUTPUT"].rules
                IN  /\ Len(got) = Len(want)
                    /\ \A i \in 1..Len(want) :
                          got[i] = [dst |-> want[i][1], target |-> "WOTT_LOG_DROP"]

\* C5 witness: block_networks([B]) has returned on a device whose IPv4 output-policy
\* chain held the rules of A and B: A's rule is gone, B's is kept, and the IPv6 chain,
\* whose family has no entry, is empty.
C5_Witness ==
    /\ inv[1].op = "block_networks"
    /\ inv[1].pc = "done"
    /\ inv[1].nets = << <<"192.168.1.1", FALSE>> >>
    /\ inv[1].before[FALSE]["WOTT_OUTPUT"] =
          << [dst |-> "10.0.0.0/8", target |-> "WOTT_LOG_DROP"],
             [dst |-> "192.168.1.1", target |-> "WOTT_LOG_DROP"] >>
    /\ fw[FALSE]["WOTT_OUTPUT"].rules = << [dst |-> "192.168.1.1", target |-> "WOTT_LOG_DROP"] >>
    /\ fw[TRUE]["WOTT_OUTPUT"].rules = <<>>

\* prepare() has returned: the call was prepare(), or block() is past its first line
PrepareDone(l) ==
    \/ l.op = "prepare" /\ l.pc = "done"
    \/ l.op = "block" /\ l.pc \in {"read_networks", "networks", "read_ports", "ports",
                                   "block_rules", "unknown_policy", "done"}

\* C6: after every prepare() that completes without error, rule #1 of the built-in
\* INPUT chain is the jump to WOTT_INPUT and rule #1 of the built-in OUTPUT chain the
\* jump to WOTT_OUTPUT, in both families, whatever the chains held before.
C6_JumpFirst ==
    \A w \in Writers :
        PrepareDone(inv[w]) =>
            \A ipv6 \in BOOLEAN :
                /\ Len(fw[ipv6]["INPUT"].rules) >= 1
                /\ fw[ipv6]["INPUT"].rules[1] = [target |-> "WOTT_INPUT"]
                /\ Len(fw[ipv6]["OUTPUT"].rules) >= 1
                /\ fw[ipv6]["OUTPUT"].rules[1] = [target |-> "WOTT_OUTPUT"]

\* C6 witness: prepare() has returned on a device whose IPv4 INPUT chain held a
\* foreign rule ahead of the jump rule and whose IPv6 OUTPUT chain held the jump
\* rule in first place.
C6_Witness ==
    /\ inv[1].op = "prepare"
    /\ inv[1].pc = "done"
    /\ inv[1].before[FALSE]["INPUT"] = <<Foreign(1), [target |-> "WOTT_INPUT"]>>
    /\ inv[1].before[TRUE]["OUTPUT"] = <<[target |-> "WOTT_OUTPUT"], Foreign(2)>>
    /\ fw[FALSE]["INPUT"].rules[1] = [target |-> "WOTT_INPUT"]

\* the rules of a chain that are not the jump to `target`
NonJump(rules, target) == SelectSeq(rules, LAMBDA r : r # [target |-> target])

\* a rule that is not the jump stands ahead of the jump rule
ForeignAhead(rules, target) ==
    \E i, j \in 1..Len(rules) : i < j /\ rules[i] # [target |-> target] /\ rules[j] = [target |-> target]

\* C7: when a foreign rule stood ahead of the jump rule of a built-in chain, the next
\* block() leaves that chain as the jump rule followed by exactly the foreign rules it
\* held, in their order: the displaced jump rule is the one rule removed.
C7_SelfHealKeepsForeign ==
    \A w \in Writers :
        (inv[w].op = "block" /\ inv[w].pc = "done") =>
            \A ipv6 \in BOOLEAN :
                /\ ForeignAhead(inv[w].before[ipv6]["INPUT"], "WOTT_INPUT") =>
                      fw[ipv6]["INPUT"].rules =
                          <<[target |-> "WOTT_INPUT"]>> \o
                          NonJump(inv[w].before[ipv6]["INPUT"], "WOTT_INPUT")
                /\ ForeignAhead(inv[w].before[ipv6]["OUTPUT"], "WOTT_OUTPUT") =>
                      fw[ipv6]["OUTPUT"].rules =
                          <<[target |-> "WOTT_OUTPUT"]>> \o
                          NonJump(inv[w].before[ipv6]["OUTPUT"], "WOTT_OUTPUT")

\* C7 witness: block() has returned on a device whose IPv4 INPUT chain held two
\* foreign rules ahead of the jump rule.
C7_Witness ==
    /\ inv[1].op = "block"
    /\ inv[1].pc = "done"
    /\ inv[1].before[FALSE]["INPUT"] = <<Foreign(2), Foreign(1), [target |-> "WOTT_INPUT"]>>
    /\ fw[FALSE]["INPUT"].rules = <<[target |-> "WOTT_INPUT"], Foreign(2), Foreign(1)>>

\* C8: a prepare() that directly follows a prepare() leaves every chain of both
\* families as the first call left it; each built-in chain holds one jump rule and
\* the log-drop chain its two static rules, once each.
C8_PrepareIdempotent ==
    \A w \in Writers :
        (inv[w].op = "prepare" /\ inv[w].pc = "done" /\ inv[w].again) =>
            /\ fw = inv[w].fw0
            /\ \A ipv6 \in BOOLEAN :
                  /\ Cardinality(Positions(fw[ipv6]["INPUT"].rules, [target |-> "WOTT_INPUT"])) = 1
                  /\ Cardinality(Positions(fw[ipv6]["OUTPUT"].rules, [target |-> "WOTT_OUTPUT"])) = 1
                  /\ fw[ipv6]["WOTT_LOG_DROP"].rules =
                        << [target |-> [LOG |-> [log_prefix |-> "DROP: ", log_level |-> "3"]]],
                           [target |-> "DROP"] >>

\* C8 witness: the second of two prepare() calls has returned, on a device that
\* holds a foreign rule.
C8_Witness ==
    /\ inv[1].op = "prepare"
    /\ inv[1].pc = "done"
    /\ inv[1].again
    /\ fw[TRUE]["INPUT"].rules = <<[target |-> "WOTT_INPUT"], Foreign(1)>>

\* the rule block_ports(False, ...) derives from the entry e = (host, proto, port, ipv6)
IsAllowRuleOf(r, e) ==
    /\ "protocol" \in DOMAIN r
    /\ r.protocol = e[2]
    /\ e[2] \in DOMAIN r
    /\ r[e[2]] = [dport |-> str(e[3])]
    /\ r.target = "ACCEPT"

\* C9: after a successful block() with policy "block", in each family's input-policy
\* chain the unconditional DROP rule is the last rule and stands nowhere else, and
\* every allow_ports entry of that family has its rule ahead of it.
C9_DefaultDenyLast ==
    \A w \in Writers :
        (inv[w].op = "block" /\ inv[w].pc = "done" /\ inv[w].policy = "block") =>
            \A ipv6 \in BOOLEAN :
                LET c == fw[ipv6]["WOTT_INPUT"].rules
                IN  /\ Len(c) >= 1
                    /\ Positions(c, [target |-> "DROP"]) = {Len(c)}
                    /\ \A i \in 1..Len(inv[w].ports) :
                          inv[w].ports[i][4] = ipv6 =>
                              \E p \in 1..(Len(c) - 1) : IsAllowRuleOf(c[p], inv[w].ports[i])

\* C9 witness: block() with policy "block" and an IPv4 allow_ports entry has returned.
C9_Witness ==
    /\ inv[1].op = "block"
    /\ inv[1].pc = "done"
    /\ inv[1].policy = "block"
    /\ inv[1].ports = << <<"192.168.1.1", "udp", 53, FALSE>> >>
    /\ Len(fw[FALSE]["WOTT_INPUT"].rules) = 4
    /\ fw[FALSE]["WOTT_INPUT"].rules[4] = [target |-> "DROP"]

\* C10: in every state of the input-policy chain of either family, also inside
\* add_block_rules and after an aborted run, a DROP rule has the loopback-accept
\* rule and the established/related-accept rule ahead of it.
C10_AcceptsBeforeDrop ==
    \A ipv6 \in BOOLEAN :
        LET c == fw[ipv6]["WOTT_INPUT"].rules
        IN  \A i \in 1..Len(c) :
                c[i] = [target |-> "DROP"] =>
                    /\ \E j \in 1..(i - 1) : c[j] = [in_interface |-> "lo", target |-> "ACCEPT"]
                    /\ \E j \in 1..(i - 1) :
                          c[j] = [conntrack |-> [ctstate |-> "RELATED,ESTABLISHED"],
                                  target |-> "ACCEPT"]

\* C10 witness: a backend error has aborted add_block_rules between the IPv6
\* inserts; the IPv4 chain holds its DROP rule, the IPv6 chain only the loopback rule.
C10_Witness ==
    /\ inv[1].pc = "raised"
    /\ fw[FALSE]["WOTT_INPUT"].rules # <<>>
    /\ fw[FALSE]["WOTT_INPUT"].rules[Len(fw[FALSE]["WOTT_INPUT"].rules)] = [target |-> "DROP"]
    /\ fw[TRUE]["WOTT_INPUT"].rules[1] = [in_interface |-> "lo", target |-> "ACCEPT"]
    /\ [target |-> "DROP"] \notin {fw[TRUE]["WOTT_INPUT"].rules[i] :
                                      i \in 1..Len(fw[TRUE]["WOTT_INPUT"].rules)}

\* the calls of block() that may touch the input-policy chain after prepare()
PortCalls == {"block_ports", "add_block_rules"}

\* C11: a block() whose document's policy is neither "allow" nor "block" runs
\* prepare() and block_networks(block_networks) and nothing else: it never enters
\* block_ports or add_block_rules, and when it is over it has returned normally,
\* has logged exactly one error, has left the input-policy chain of both families
\* empty as prepare() made it, and the output-policy chain holds the networks.
C11_UnknownPolicyNoOp ==
    \A w \in Writers :
        (inv[w].op = "block" /\ inv[w].policy \notin {"allow", "block"}) =>
            /\ \A i \in 1..Len(inv[w].calls) : inv[w].calls[i] \notin PortCalls
            /\ inv[w].pc \notin {"read_ports", "ports", "block_rules"}
            /\ inv[w].pc \in Rest =>
                  /\ inv[w].pc = "done"
                  /\ inv[w].calls = <<"prepare", "block_networks">>
                  /\ inv[w].errors = 1
                  /\ \A ipv6 \in BOOLEAN :
                        /\ fw[ipv6]["WOTT_INPUT"].exists
                        /\ fw[ipv6]["WOTT_INPUT"].rules = <<>>
                        /\ fw[ipv6]["WOTT_LOG_DROP"].exists
                        /\ fw[ipv6]["WOTT_OUTPUT"].rules =
                              [i \in 1..Len(NetsOfFamily(inv[w].nets, ipv6)) |->
                                  [dst |-> NetsOfFamily(inv[w].nets, ipv6)[i][1],
                                   target |-> "WOTT_LOG_DROP"]]

\* C11 witness: block({policy: "frobnicate", block_networks: [10.0.0.0/8]}) has
\* returned with one error logged, the network blocked, the input-policy chain empty.
C11_Witness ==
    /\ inv[1].op = "block"
    /\ inv[1].policy = "frobnicate"
    /\ inv[1].pc = "done"
    /\ inv[1].errors = 1
    /\ inv[1].nets = << <<"10.0.0.0/8", FALSE>> >>
    /\ fw[FALSE]["WOTT_OUTPUT"].rules = << [dst |-> "10.0.0.0/8", target |-> "WOTT_LOG_DROP"] >>
    /\ fw[FALSE]["WOTT_INPUT"].rules = <<>>

\* the functions block() is to call for a policy, in order
StepOrder(policy) ==
    CASE policy = "allow" -> <<"prepare", "block_networks", "block_ports">>
      [] policy = "block" -> <<"prepare", "block_networks", "block_ports", "add_block_rules">>
      [] OTHER -> <<"prepare", "block_networks">>

\* the function whose backend calls the program counter stands in
StepOfPc(pc) ==
    CASE pc \in PreparePcs -> "prepare"
      [] pc = "networks" -> "block_networks"
      [] pc = "ports" -> "block_ports"
      [] pc = "block_rules" -> "add_block_rules"
      [] OTHER -> "none"

\* C12: in every invocation of block() the functions entered so far are the first
\* ones of prepare, block_networks, block_ports (policy "allow": with allow = true;
\* policy "block": with allow = false, followed by add_block_rules), each entered
\* once and only when the one before it is over; a backend call is always made by
\* the function entered last; an invocation that returned has entered them all.
C12_StepOrdering ==
    \A w \in Writers :
        inv[w].op = "block" =>
            LET l == inv[w]
                order == StepOrder(l.policy)
            IN  /\ Len(l.calls) \in 1..Len(order)
                /\ l.calls = SubSeq(order, 1, Len(l.calls))
                /\ l.pc \in CallSites => StepOfPc(l.pc) = l.calls[Len(l.calls)]
                /\ l.pc = "done" => l.calls = order
                /\ Len(l.calls) >= 3 => l.allow = (l.policy = "allow")

\* C12 witness: a block() with policy "block" is inside add_block_rules for IPv6,
\* after prepare, block_networks and block_ports(false, allow_ports).
C12_Witness ==
    /\ inv[1].op = "block"
    /\ inv[1].policy = "block"
    /\ inv[1].pc = "block_rules"
    /\ inv[1].ipv6
    /\ ~inv[1].allow
    /\ inv[1].ports # <<>>
    /\ inv[1].calls = <<"prepare", "block_networks", "block_ports", "add_block_rules">>

\* block_ports(allow, ports) has returned and nothing has touched the input-policy
\* chain since
PortsDone(l) ==
    \/ l.op = "block_ports" /\ l.pc = "done"
    \/ l.op = "block" /\ l.policy = "allow" /\ l.pc = "done"
    \/ l.op = "block" /\ l.policy = "block" /\ l.pc = "block_rules" /\ l.k = 1 /\ ~l.ipv6

\* the entries of ports list P that belong to one family, in the order of P
PortsOfFamily(P, ipv6) == SelectSeq(P, LAMBDA e : e[4] = ipv6)

\* the decimal text of the port numbers in use
PortText(port) ==
    CASE port = 22 -> "22"
      [] port = 53 -> "53"
      [] port = 80 -> "80"

\* C13: for every entry (host, protocol, port, family) given to block_ports, the
\* rule derived from it matches the protocol and the destination port, has no
\* destination match when host is "0.0.0.0" or "::", and matches the destination
\* host for every other host.
C13_AnyAddressNormalized ==
    \A w \in Writers :
        PortsDone(inv[w]) =>
            \A ipv6 \in BOOLEAN :
                LET want == PortsOfFamily(inv[w].ports, ipv6)
                    got == fw[ipv6]["WOTT_INPUT"].rules
                IN  /\ Len(got) = Len(want)
                    /\ \A i \in 1..Len(want) :
                          LET r == got[i]
                              host == want[i][1]
                              proto == want[i][2]
                          IN  /\ ("dst" \in DOMAIN r) = (host \notin {"0.0.0.0", "::"})
                              /\ "dst" \in DOMAIN r => r["dst"] = host
                              /\ r["protocol"] = proto
                              /\ proto \in DOMAIN r
                              /\ r[proto] = [dport |-> PortText(want[i][3])]

\* C13 witness: block() with policy "allow" has returned after block_ports of
\* 0.0.0.0 tcp/22 and 192.168.1.1 udp/53: the first rule has no destination match,
\* the second matches 192.168.1.1.
C13_Witness ==
    /\ inv[1].op = "block"
    /\ inv[1].policy = "allow"
    /\ inv[1].pc = "done"
    /\ inv[1].ports = << <<"0.0.0.0", "tcp", 22, FALSE>>, <<"192.168.1.1", "udp", 53, FALSE>> >>
    /\ Len(fw[FALSE]["WOTT_INPUT"].rules) = 2
    /\ "dst" \notin DOMAIN fw[FALSE]["WOTT_INPUT"].rules[1]
    /\ "dst" \in DOMAIN fw[FALSE]["WOTT_INPUT"].rules[2]

\* C14: every rule derived by block_ports(allow, ports) has WOTT_LOG_DROP as its
\* target when allow is true and ACCEPT when allow is false; block() passes
\* allow = true with the block_ports of a policy "allow" document and allow = false
\* with the allow_ports of a policy "block" document.
C14_TargetSelection ==
    \A w \in Writers :
        PortsDone(inv[w]) =>
            /\ inv[w].op = "block" => inv[w].allow = (inv[w].policy = "allow")
            /\ \A ipv6 \in BOOLEAN :
                  LET got == fw[ipv6]["WOTT_INPUT"].rules
                  IN  /\ Len(got) = Len(PortsOfFamily(inv[w].ports, ipv6))
                      /\ \A i \in 1..Len(got) :
                            got[i]["target"] = IF inv[w].allow THEN "WOTT_LOG_DROP" ELSE "ACCEPT"

\* C14 witness: a block() with policy "block" has finished block_ports(false, ...)
\* of the IPv6 entry :: tcp/80, whose rule accepts.
C14_Witness ==
    /\ inv[1].op = "block"
    /\ inv[1].policy = "block"
    /\ inv[1].pc = "block_rules"
    /\ inv[1].k = 1
    /\ ~inv[1].ipv6
    /\ inv[1].ports = << <<"::", "tcp", 80, TRUE>> >>
    /\ fw[TRUE]["WOTT_INPUT"].rules = << [protocol |-> "tcp", tcp |-> [dport |-> "80"], target |-> "ACCEPT"] >>

\* the rules of a sequence, as a set
RulesIn(rules) == {rules[i] : i \in 1..Len(rules)}

\* the rule block_ports is to derive from one entry of its list
RuleOfEntry(allow, e) ==
    LET base == (e[2] :> [dport |-> PortText(e[3])]) @@
                [protocol |-> e[2], target |-> IF allow THEN "WOTT_LOG_DROP" ELSE "ACCEPT"]
    IN  IF e[1] \in {"0.0.0.0", "::"} THEN base ELSE base @@ [dst |-> e[1]]

\* C15 as stated: a block_ports(allow, P) that returned has left every rule the
\* input-policy chain held before it in place.
C15_PortsAdditive ==
    \A w \in Writers :
        (inv[w].op = "block_ports" /\ inv[w].pc = "done") =>
            \A ipv6 \in BOOLEAN :
                RulesIn(inv[w].fw0[ipv6]["WOTT_INPUT"].rules)
                    \subseteq RulesIn(fw[ipv6]["WOTT_INPUT"].rules)

\* C15 amended: block_ports(allow, P) replaces the input-policy chain: after it, for
\* each family the chain holds exactly the rules derived from the entries of P of
\* that family, in the order of P, whatever it held before; the other chains are
\* as they were.
C15_PortsReplace ==
    \A w \in Writers :
        (inv[w].op = "block_ports" /\ inv[w].pc = "done") =>
            \A ipv6 \in BOOLEAN :
                LET want == PortsOfFamily(inv[w].ports, ipv6)
                IN  /\ fw[ipv6]["WOTT_INPUT"].rules =
                          [i \in 1..Len(want) |-> RuleOfEntry(inv[w].allow, want[i])]
                    /\ \A c \in ChainNames \ {"WOTT_INPUT"} : fw[ipv6][c] = inv[w].fw0[ipv6][c]

\* C15 witness: block_ports(true, [192.168.1.1 udp/53]) has returned on a device
\* whose IPv4 input-policy chain held the rule of 0.0.0.0 tcp/22: that rule is gone.
C15_Witness ==
    /\ inv[1].op = "block_ports"
    /\ inv[1].pc = "done"
    /\ inv[1].allow
    /\ inv[1].ports = << <<"192.168.1.1", "udp", 53, FALSE>> >>
    /\ inv[1].fw0[FALSE]["WOTT_INPUT"].rules =
          << [protocol |-> "tcp", tcp |-> [dport |-> "22"], target |-> "WOTT_LOG_DROP"] >>
    /\ fw[FALSE]["WOTT_INPUT"].rules =
          << [protocol |-> "udp", udp |-> [dport |-> "53"], dst |-> "192.168.1.1",
              target |-> "WOTT_LOG_DROP"] >>

\* a step that was run twice in a row with the same arguments has returned
RanTwice(l, ops) == l.op \in ops /\ l.again /\ l.pc = "done"

\* C16 as stated: each of prepare(), block_networks(L), block_ports(a, P) and
\* add_block_rules(), run a second time in a row with the same arguments, leaves
\* every chain as the first run left it.
C16_EveryStepIdempotent ==
    \A w \in Writers :
        RanTwice(inv[w], {"prepare", "block_networks", "block_ports", "add_block_rules"})
            => fw = inv[w].fw0

\* C16 amended: prepare(), block_networks(L) and block_ports(a, P), run a second
\* time in a row with the same arguments, leave every chain as the first run left
\* it; add_block_rules() does not: its second run puts the loopback and conntrack
\* accepts in front of the input-policy chain and a DROP at its end once more, and
\* leaves the other chains alone.
C16_StepsIdempotentButBlockRules ==
    \A w \in Writers :
        /\ RanTwice(inv[w], {"prepare", "block_networks", "block_ports"}) => fw = inv[w].fw0
        /\ RanTwice(inv[w], {"add_block_rules"}) =>
              \A ipv6 \in BOOLEAN :
                  /\ fw[ipv6]["WOTT_INPUT"].rules =
                        << [in_interface |-> "lo", target |-> "ACCEPT"],
                           [conntrack |-> [ctstate |-> "RELATED,ESTABLISHED"], target |-> "ACCEPT"] >>
                        \o inv[w].fw0[ipv6]["WOTT_INPUT"].rules
                        \o << [target |-> "DROP"] >>
                  /\ \A c \in ChainNames \ {"WOTT_INPUT"} : fw[ipv6][c] = inv[w].fw0[ipv6][c]

\* C16 witness: add_block_rules() has returned twice in a row on an empty
\* input-policy chain, which now holds six rules.
C16_Witness ==
    /\ RanTwice(inv[1], {"add_block_rules"})
    /\ Len(inv[1].fw0[FALSE]["WOTT_INPUT"].rules) = 3
    /\ Len(fw[FALSE]["WOTT_INPUT"].rules) = 6
    /\ fw[FALSE]["WOTT_INPUT"].rules[3] = [in_interface |-> "lo", target |-> "ACCEPT"]

\* the phases in which a job is inside its `with Locker(...)` statement
InsideLocker == {"entered", "body", "exit"}

\* C17: a lock name is held only by a job that is inside the Locker statement
\* protecting its body: once the body has ended, normally or with an exception, and
\* the statement is left, the job holds nothing, so a failed holder never blocks a
\* later acquirer of the name.
C17_ReleasedOnEveryExit ==
    /\ \A n \in LockNames : \A j \in lock[n] :
          /\ exe[j].lockname = n
          /\ exe[j].phase \in InsideLocker
    /\ \A j \in Jobs :
          (exe[j].phase \notin InsideLocker) => \A n \in LockNames : j \notin lock[n]

\* C17 witness: the body of job 1 failed under lock name "one" and the job is back
\* asleep, holding nothing, while job 2 runs its body under the same name.
C17_Witness ==
    /\ exe[1].use_lock
    /\ exe[1].failed
    /\ exe[1].phase = "waiting"
    /\ exe[2].phase = "body"
    /\ lock["one"] = {2}

\* C18: a job at the door of the Locker of its name gets in as soon as nobody holds
\* that name, whoever holds the other names; and of two jobs locking the same name
\* (two under "one", two under "two") never both are in their body.
C18_NamesIndependent ==
    /\ \A j \in Jobs :
          (/\ exe[j].phase = "dispatched"
           /\ exe[j].use_lock
           /\ lock[exe[j].lockname] = {})
          => ENABLED Acquire(j)
    /\ \A n \in LockNames :
          Cardinality({j \in Jobs : /\ exe[j].use_lock
                                    /\ exe[j].lockname = n
                                    /\ exe[j].phase = "body"}) <= 1

\* C18 witness: job 1 runs its body holding "one" while job 3 runs its body
\* holding "two", and job 2 waits for "one".
C18_Witness ==
    /\ exe[1].phase = "body"
    /\ lock["one"] = {1}
    /\ exe[3].phase = "body"
    /\ lock["two"] = {3}
    /\ exe[2].phase = "dispatched"

\* C19: the executor itself serializes nothing: a job with no lock configured never
\* holds a lock name and, once its body is handed to a worker, can always go on,
\* whatever the other jobs do; so two such jobs can be in their bodies at once
\* (the witness).
C19_NoLockNoSerialization ==
    \A j \in Jobs :
        (exe[j].kind = "sleeper" /\ ~exe[j].use_lock) =>
            /\ \A n \in LockNames : j \notin lock[n]
            /\ exe[j].phase = "dispatched" => ENABLED Acquire(j)

\* C19 witness: two jobs scheduled at the same interval with no lock are both
\* between their begin and end writes.
C19_Witness ==
    /\ ~exe[1].use_lock
    /\ ~exe[2].use_lock
    /\ exe[1].phase = "body"
    /\ exe[2].phase = "body"
    /\ \A n \in LockNames : lock[n] = {}

\* the job's handle was cancelled, or its executor stopped after it was scheduled
Halted(e) == e.cancelled \/ (e.phase \notin {"off", "new"} /\ ~e.is_running)

\* a step that hands the body of job j to a worker: a new execution starts
StartsRun(j) == exe[j].phase # "dispatched" /\ exe'[j].phase = "dispatched"

\* C20: once a job's handle is cancelled or the executors are stopped, the job
\* stays so and no new execution of its body is ever started; the other jobs are
\* not affected: a scheduled job that is neither cancelled nor stopped can be
\* ticked while the loop runs, whichever other jobs are cancelled.
C20_StopAndCancelHalt ==
    /\ [][\A j \in Jobs : Halted(exe[j]) => (Halted(exe'[j]) /\ ~StartsRun(j))]_vars
    /\ [](\A j \in Jobs :
            (/\ loop = "running"
             /\ exe[j].phase = "waiting"
             /\ exe[j].is_running
             /\ ~exe[j].cancelled)
            => ENABLED Tick(j))

\* C20 witness: job 1 was cancelled after a run and sleeps for good, while job 2,
\* not cancelled, has been handed to a worker again and the loop still runs.
C20_Witness ==
    /\ loop = "running"
    /\ exe[1].cancelled
    /\ exe[1].failed
    /\ exe[1].phase = "waiting"
    /\ ~exe[2].cancelled
    /\ exe[2].is_running
    /\ exe[2].phase = "dispatched"

\* block() called by job j is over: it returned, or an exception left it
BodyOver(j) == inv[j].pc \in {"done", "raised"}

\* C21: cancel() and stop() leave a body that has started where it is (its place
\* in block(), its lock); the lock of a job is released only when its body is
\* over; and a body that was in flight when its job was cancelled or stopped runs
\* to its end, after which the lock is released.
C21_InFlightRunsToEnd ==
    /\ [][\A j \in Writers :
            (~Halted(exe[j]) /\ Halted(exe'[j])) =>
                /\ exe'[j].phase = exe[j].phase
                /\ inv'[j] = inv[j]
                /\ lock' = lock]_vars
    /\ [][\A j \in Writers : \A n \in LockNames :
            (j \in lock[n] /\ j \notin lock'[n]) =>
                (exe[j].phase = "exit" /\ BodyOver(j))]_vars
    /\ \A j \in Writers :
          (exe[j].phase = "body" /\ Halted(exe[j]))
              ~> (/\ exe[j].phase = "waiting"
                  /\ BodyOver(j)
                  /\ \A n \in LockNames : j \notin lock[n])

\* C21 witness: job 1 was cancelled while its block() is inside add_block_rules,
\* and still holds the lock.
C21_Witness ==
    /\ exe[1].phase = "body"
    /\ exe[1].cancelled
    /\ inv[1].pc = "block_rules"
    /\ lock["iptables"] = {1}

\* the body of job a is blocked: it waits for a lock someone else holds, or sleeps
Blocked(a) ==
    \/ exe[a].phase = "dispatched" /\ WantsLock(a) /\ ~LockFree(exe[a].lockname)
    \/ exe[a].phase = "body"

\* job b is due for a tick of the running loop
DueForTick(b) == loop = "running" /\ exe[b].phase = "waiting" /\ MayTick(exe[b])

HandleReleased(j) == exe[j].phase \in {"released", "rereleased"}

\* C23: a handle that was released can always be released again, and a step in
\* which job j does so (no other job moves) leaves every lock as it is, also a
\* lock of the same name that another job has acquired since.
C23_ReleaseIdempotent ==
    /\ [](\A j \in Jobs : HandleReleased(j) => ENABLED ReleaseAgain(j))
    /\ [][\A j \in Jobs :
            (/\ HandleReleased(j)
             /\ exe'[j].phase = "rereleased"
             /\ \A i \in Jobs \ {j} : exe'[i] = exe[i]) => lock' = lock]_vars

\* C23 witness: job 1 has released its handle twice while job 2, which acquired
\* the lock "one" after the first release, is in its body.
C23_Witness ==
    /\ exe[1].phase = "rereleased"
    /\ lock["one"] = {2}
    /\ exe[2].phase = "body"

\* the rules of chain c of one family, as a set
ChainRuleSet(f, ipv6, c) == {f[ipv6][c].rules[i] : i \in 1..Len(f[ipv6][c].rules)}

\* the chains the reconciler owns
OwnChains == {DROP_CHAIN, INPUT_CHAIN, OUTPUT_CHAIN}

\* C24: in every step of block(), failing backend calls included, a rule that
\* appears in a built-in or policy chain and targets one of the reconciler's
\* chains finds that chain in existence before the step, and a chain of the
\* reconciler that receives rules exists before the step.  (The log-drop chain
\* only ever receives its two static rules, whose targets are LOG and DROP.)
C24_ChainsExistBeforeRules ==
    [][\A ipv6 \in BOOLEAN :
          /\ \A c \in ChainNames \ {DROP_CHAIN} :
                \A r \in ChainRuleSet(fw', ipv6, c) \ ChainRuleSet(fw, ipv6, c) :
                    r.target \in OwnChains => fw[ipv6][r.target].exists
          /\ \A c \in OwnChains :
                (fw'[ipv6][c].rules # fw[ipv6][c].rules /\ fw'[ipv6][c].rules # <<>>)
                    => fw[ipv6][c].exists]_vars

\* C24 witness: a block() that follows an aborted one has put a rule that targets
\* the log-drop chain into the IPv4 output-policy chain, under the jump rule of
\* the built-in OUTPUT chain.
C24_Witness ==
    /\ nfail = 1
    /\ inv[1].op = "block"
    /\ inv[1].pc = "done"
    /\ fw[FALSE][OUTPUT_CHAIN].rules # <<>>
    /\ fw[FALSE][OUTPUT_CHAIN].rules[1].target = DROP_CHAIN
    /\ fw[FALSE]["OUTPUT"].rules = <<JumpRule(OUTPUT_CHAIN)>>

\* the entries of list L that are tagged with one family, in the order of L
EntriesOfFamily(L, ipv6) == SelectSeq(L, LAMBDA e : e[Len(e)] = ipv6)

\* document d without the entries of the other family
FamilyDoc(d, ipv6) ==
    [policy |-> d.policy,
     block_networks |-> EntriesOfFamily(d.block_networks, ipv6),
     block_ports |-> EntriesOfFamily(d.block_ports, ipv6),
     allow_ports |-> EntriesOfFamily(d.allow_ports, ipv6)]

\* C25: when block(d) has returned, the chains of each family are what block()
\* makes of d with the entries of the other family taken out: the entries tagged
\* with one family reach no chain of the other and change nothing there.
C25_FamilyIndependence ==
    \A w \in Writers :
        (inv[w].op = "block" /\ inv[w].pc = "done") =>
            \A ipv6 \in BOOLEAN :
                fw[ipv6] = CleanResult(FamilyDoc(DocOf(inv[w]), ipv6))[ipv6]

\* C25 witness: block() has returned for a document with networks of both
\* families and with ports of one family only; the output-policy chains of the
\* two families hold different rules and one input-policy chain has no port rule.
C25_Witness ==
    /\ inv[1].op = "block"
    /\ inv[1].pc = "done"
    /\ inv[1].policy = "allow"
    /\ EntriesOfFamily(inv[1].nets, FALSE) # <<>>
    /\ EntriesOfFamily(inv[1].nets, TRUE) # <<>>
    /\ EntriesOfFamily(inv[1].ports, FALSE) # <<>>
    /\ EntriesOfFamily(inv[1].ports, TRUE) = <<>>
    /\ fw[FALSE][OUTPUT_CHAIN].rules # fw[TRUE][OUTPUT_CHAIN].rules
    /\ fw[FALSE][INPUT_CHAIN].rules # <<>>
    /\ fw[TRUE][INPUT_CHAIN].rules = <<>>

\* C26: for each family, a log-drop chain that prepare() finds present is never
\* created, filled or otherwise changed by it, and a log-drop chain that
\* prepare() finds absent holds, once prepare() is over, exactly the LOG rule
\* with its prefix followed by the unconditional DROP rule.
C26_LogDropBootstrap ==
    \A w \in Writers :
        inv[w].op \in {"prepare", "block"} =>
            \A ipv6 \in BOOLEAN :
                /\ inv[w].drop0[ipv6].exists =>
                      /\ fw[ipv6][DROP_CHAIN] = inv[w].drop0[ipv6]
                      /\ ~(inv[w].ipv6 = ipv6 /\ inv[w].pc \in {"add_drop", "fill_drop"})
                /\ (~inv[w].drop0[ipv6].exists /\ PrepareDone(inv[w])) =>
                      fw[ipv6][DROP_CHAIN] =
                          [exists |-> TRUE,
                           rules |-> << [target |-> [LOG |-> [log_prefix |-> "DROP: ",
                                                               log_level |-> "3"]]],
                                        [target |-> "DROP"] >>]

\* C26 witness: block() has returned on a device where an aborted run had left
\* the IPv4 log-drop chain created but empty and the IPv6 one absent: the IPv4
\* chain is still empty, the IPv6 chain has been created with its two rules.
C26_Witness ==
    /\ inv[1].op = "block"
    /\ inv[1].pc = "done"
    /\ inv[1].drop0[FALSE] = [exists |-> TRUE, rules |-> <<>>]
    /\ fw[FALSE][DROP_CHAIN].rules = <<>>
    /\ ~inv[1].drop0[TRUE].exists
    /\ fw[TRUE][DROP_CHAIN].rules = StaticDropRules

\* C27: when a prepare() has returned, the input-policy chain and the
\* output-policy chain of both families exist and hold no rule, whatever they
\* held when prepare() was called.
C27_PolicyChainsStartEmpty ==
    \A w \in Writers :
        (inv[w].op = "prepare" /\ inv[w].pc = "done") =>
            \A ipv6 \in BOOLEAN : \A c \in {INPUT_CHAIN, OUTPUT_CHAIN} :
                fw[ipv6][c] = [exists |-> TRUE, rules |-> <<>>]

\* C27 witness: prepare() has returned on a device whose IPv4 output-policy chain
\* held two network rules when it was called.
C27_Witness ==
    /\ inv[1].op = "prepare"
    /\ inv[1].pc = "done"
    /\ Len(inv[1].before[FALSE][OUTPUT_CHAIN]) = 2
    /\ fw[FALSE][OUTPUT_CHAIN].rules = <<>>
    /\ fw[FALSE][INPUT_CHAIN].exists

\* C28: when a backend call of block() has raised a backend error whose message
\* contains "insmod", block() has logged the error and the "try rebooting" error
\* and has returned normally.
C28_RebootHint ==
    \A w \in Writers :
        (inv[w].op = "block" /\ inv[w].insmod) =>
            /\ inv[w].pc = "done"
            /\ inv[w].hint
            /\ inv[w].errors = 2

\* what block() makes of the document of caller w when it runs alone
AloneResult(w) ==
    CleanResult([k \in DOMAIN UnlockedDocs[w] |-> CHOOSE x \in UnlockedDocs[w][k] : TRUE])

\* C29: nothing in block() keeps two unlocked callers apart: no lock is taken,
\* and a caller in the middle of its block() can always take its next step,
\* wherever the other caller is in its own.  (The corrupted end state that such
\* interleaving leads to is the state of C29_Witness.)
C29_UnlockedWritersInterleave ==
    /\ \A n \in LockNames : lock[n] = {}
    /\ \A w \in Writers : inv[w].pc \notin Rest => ENABLED BlockStep(w)

\* C29 witness: both callers' block() have returned, and the IPv4 input-policy or
\* output-policy chain is neither what the first document alone gives nor what
\* the second alone gives.
C29_Witness ==
    /\ \A w \in Writers : inv[w].op = "block" /\ inv[w].pc = "done"
    /\ \E c \in {INPUT_CHAIN, OUTPUT_CHAIN} :
          \A w \in Writers : fw[FALSE][c] # AloneResult(w)[FALSE][c]

\* C30: when add_block_rules() has returned, the input-policy chain of each
\* family, which held n rules when it was called, holds n + 3: the loopback accept
\* at position 1, the established/related accept at position 2, the n rules in
\* their previous order at positions 3..n+2, and the unconditional DROP last.
C30_ExactPositions ==
    \A w \in Writers :
        (inv[w].op = "add_block_rules" /\ inv[w].pc = "done") =>
            \A ipv6 \in BOOLEAN :
                LET old == inv[w].fw0[ipv6][INPUT_CHAIN].rules
                    got == fw[ipv6][INPUT_CHAIN].rules
                    n == Len(old)
                IN  /\ Len(got) = n + 3
                    /\ got[1] = [in_interface |-> "lo", target |-> "ACCEPT"]
                    /\ got[2] = [conntrack |-> [ctstate |-> "RELATED,ESTABLISHED"],
                                 target |-> "ACCEPT"]
                    /\ \A i \in 1..n : got[i + 2] = old[i]
                    /\ got[n + 3] = [target |-> "DROP"]

\* C30 witness: add_block_rules() has returned on a device whose IPv4
\* input-policy chain held two different port rules and whose IPv6 one held none.
C30_Witness ==
    /\ inv[1].op = "add_block_rules"
    /\ inv[1].pc = "done"
    /\ LET old == inv[1].fw0[FALSE][INPUT_CHAIN].rules
       IN  /\ Len(old) = 2
           /\ old[1] # old[2]
           /\ \A i \in 1..2 : "protocol" \in DOMAIN old[i]
    /\ inv[1].fw0[TRUE][INPUT_CHAIN].rules = <<>>
    /\ Len(fw[FALSE][INPUT_CHAIN].rules) = 5
    /\ Len(fw[TRUE][INPUT_CHAIN].rules) = 3

\* the input-policy and output-policy chains
PolicyChains == {INPUT_CHAIN, OUTPUT_CHAIN}

\* block() has returned normally
BlockReturned(l) == l.op = "block" /\ l.pc = "done"

\* C31: when a block(d) that follows any number of block() calls has returned,
\* the input-policy and output-policy chains of both families are what block(d)
\* leaves on a device nothing has touched; no rule that the call found in the
\* input-policy chain is left there unless d gives it again.
C31_HistoryIndependence ==
    \A w \in Writers :
        BlockReturned(inv[w]) =>
            \A ipv6 \in BOOLEAN :
                /\ \A c \in PolicyChains :
                      fw[ipv6][c] = CleanResult(DocOf(inv[w]))[ipv6][c]
                /\ \A r \in ChainRuleSet(inv[w].fw0, ipv6, INPUT_CHAIN)
                            \cap ChainRuleSet(fw, ipv6, INPUT_CHAIN) :
                      r \in ChainRuleSet(CleanResult(DocOf(inv[w])), ipv6, INPUT_CHAIN)

\* C31 witness: block(d) has returned on a device whose IPv4 input-policy chain
\* held, from an earlier block(), the rule that drops tcp/22; d has policy
\* "allow" and lists only udp/53, and the rule for tcp/22 is gone.
C31_Witness ==
    /\ BlockReturned(inv[1])
    /\ inv[1].again
    /\ inv[1].policy = "allow"
    /\ [protocol |-> "tcp", tcp |-> [dport |-> "22"], target |-> DROP_CHAIN]
          \in ChainRuleSet(inv[1].fw0, FALSE, INPUT_CHAIN)
    /\ inv[1].ports = << <<"192.168.1.1", "udp", 53, FALSE>> >>
    /\ Len(fw[FALSE][INPUT_CHAIN].rules) = 1
    /\ fw[FALSE][INPUT_CHAIN].rules[1].protocol = "udp"

\* the rule block_ports(True, ...) derives from one entry of block_ports
BlockedPortRule(e) ==
    LET base == (e[2] :> [dport |-> str(e[3])]) @@ [protocol |-> e[2], target |-> DROP_CHAIN]
    IN  IF e[1] \in {"0.0.0.0", "::"} THEN base ELSE base @@ [dst |-> e[1]]

\* C32: when a block() with policy "allow" has returned, the input-policy chain
\* of each family holds one rule per block_ports entry of that family, in the
\* order of the list, each targeting the log-drop chain, and nothing else: no
\* DROP, no loopback accept, no established/related accept, whatever the chain
\* held when block() was called.
C32_NoDefaultDenyInAllowMode ==
    \A w \in Writers :
        (BlockReturned(inv[w]) /\ inv[w].policy = "allow") =>
            \A ipv6 \in BOOLEAN :
                LET want == EntriesOfFamily(inv[w].ports, ipv6)
                    got == fw[ipv6][INPUT_CHAIN].rules
                IN  /\ Len(got) = Len(want)
                    /\ \A i \in 1..Len(want) : got[i] = BlockedPortRule(want[i])
                    /\ \A i \in 1..Len(got) :
                          /\ got[i].target = DROP_CHAIN
                          /\ got[i] \notin {DropRule, LoopbackRule, ConntrackRule}

\* C32 witness: block() with policy "allow" and one IPv4 port has returned on a
\* device whose input-policy chains held, from a block() with policy "block",
\* the two accept rules and the DROP rule.
C32_Witness ==
    /\ BlockReturned(inv[1])
    /\ inv[1].policy = "allow"
    /\ Len(inv[1].ports) = 1
    /\ \A ipv6 \in BOOLEAN :
          {DropRule, LoopbackRule, ConntrackRule}
              \subseteq ChainRuleSet(inv[1].fw0, ipv6, INPUT_CHAIN)
    /\ Len(fw[FALSE][INPUT_CHAIN].rules) + Len(fw[TRUE][INPUT_CHAIN].rules) = 1

\* the document of invocation l with "allow" for a missing policy and the empty
\* list for a missing list
Filled(l) ==
    LET policy == IF "policy" \in l.missing THEN "allow" ELSE l.policy
        ports(key) == IF key \in l.missing THEN <<>> ELSE l.ports
    IN  [policy |-> policy,
         block_networks |-> IF "block_networks" \in l.missing THEN <<>> ELSE l.nets,
         block_ports |-> IF policy = "allow" THEN ports("block_ports") ELSE <<>>,
         allow_ports |-> IF policy = "block" THEN ports("allow_ports") ELSE <<>>]

\* C33: a block() whose document lacks the policy key runs with policy "allow";
\* when it has returned it has logged no error and raised none, and the policy
\* chains are those of the document with "allow" put for a missing policy and
\* the empty list for a missing block_networks, block_ports or allow_ports.
C33_DocumentDefaults ==
    \A w \in Writers :
        inv[w].op = "block" =>
            /\ "policy" \in inv[w].missing => inv[w].policy = "allow"
            /\ inv[w].pc # "raised"
            /\ BlockReturned(inv[w]) =>
                  /\ inv[w].errors = 0
                  /\ \A ipv6 \in BOOLEAN : \A c \in PolicyChains :
                        fw[ipv6][c] = CleanResult(Filled(inv[w]))[ipv6][c]

\* C33 witness: block({}) has returned on a device where an earlier block()
\* had left rules: it ran as policy "allow" and both IPv4 policy chains are empty.
C33_Witness ==
    /\ BlockReturned(inv[1])
    /\ inv[1].missing = DocKeys
    /\ inv[1].before[FALSE][OUTPUT_CHAIN] # <<>>
    /\ inv[1].calls = <<"prepare", "block_networks", "block_ports">>
    /\ fw[FALSE][OUTPUT_CHAIN] = [exists |-> TRUE, rules |-> <<>>]
    /\ fw[FALSE][INPUT_CHAIN] = [exists |-> TRUE, rules |-> <<>>]

\* the number of rules of a chain that are the jump to `target`
JumpCount(rules, target) == Cardinality(Positions(rules, JumpRule(target)))

\* C34: when prepare() is over, each built-in chain that held at most one jump
\* rule to its policy chain when prepare() was called holds exactly one, and as
\* many other rules as before; a built-in chain whose rule #1 was the jump rule
\* is as it was, and prepare() is never at the delete or the insert for it.
C34_SingleJumpRule ==
    \A w \in Writers :
        /\ PrepareDone(inv[w]) =>
              \A ipv6 \in BOOLEAN : \A i \in 1..Len(BuiltinPairs) :
                  LET target == BuiltinPairs[i][1]
                      old == inv[w].before[ipv6][BuiltinPairs[i][2]]
                      got == fw[ipv6][BuiltinPairs[i][2]].rules
                  IN  JumpCount(old, target) <= 1 =>
                          /\ JumpCount(got, target) = 1
                          /\ Len(got) - 1 = Len(old) - JumpCount(old, target)
                          /\ (old # <<>> /\ old[1] = JumpRule(target)) => got = old
        /\ inv[w].pc \in {"del_jump", "add_jump"} =>
              LET old == inv[w].before[inv[w].ipv6][BuiltinPairs[inv[w].bi][2]]
              IN  old = <<>> \/ old[1] # JumpRule(BuiltinPairs[inv[w].bi][1])

\* C34 witness: prepare() has returned on a device whose IPv4 OUTPUT chain held
\* its jump rule between two rules of another tool, and whose IPv6 INPUT chain
\* had the jump rule first.
C34_Witness ==
    /\ inv[1].op = "prepare"
    /\ inv[1].pc = "done"
    /\ inv[1].before[FALSE]["OUTPUT"] = <<Foreign(1), JumpRule(OUTPUT_CHAIN), Foreign(2)>>
    /\ fw[FALSE]["OUTPUT"].rules = <<JumpRule(OUTPUT_CHAIN), Foreign(1), Foreign(2)>>
    /\ inv[1].before[TRUE]["INPUT"] = <<JumpRule(INPUT_CHAIN)>>
    /\ fw[TRUE]["INPUT"].rules = <<JumpRule(INPUT_CHAIN)>>

\* the chains of one table of one family in the backend, with the rules and the
\* default verdict of each, when invocation l of dump() read them
BackendChains(l, table_name, ipv6) ==
    IF table_name = "filter"
    THEN [c \in {c \in ChainNames : fw[ipv6][c].exists} |->
             [rules |-> fw[ipv6][c].rules,
              policy |-> IF c \in {"INPUT", "OUTPUT"} THEN l.seen[ipv6].filter_policy
                         ELSE "None"]]
    ELSE l.seen[ipv6][table_name]

\* C35: the value dump() returns has, under "v4" and "v6" and under each of
\* filter, nat and mangle, one entry per chain of that table in the backend; the
\* entry's rules are the chain's rules, except for a chain named WOTT_OUTPUT whose
\* entry has no rules; the entry has a policy key exactly when the backend gives
\* the chain a default verdict, and the key then holds that verdict.
C35_DumpOutput ==
    \A w \in Writers :
        (inv[w].op = "dump" /\ inv[w].pc = "done") =>
            /\ DOMAIN inv[w].tables = {"v4", "v6"}
            /\ \A ipv6 \in BOOLEAN :
                  LET out == inv[w].tables[IF ipv6 THEN "v6" ELSE "v4"]
                  IN  /\ DOMAIN out = {"filter", "nat", "mangle"}
                      /\ \A t \in DOMAIN out :
                            LET chains == BackendChains(inv[w], t, ipv6)
                            IN  /\ DOMAIN out[t] = DOMAIN chains
                                /\ \A c \in DOMAIN chains :
                                      /\ out[t][c].rules =
                                            IF c = "WOTT_OUTPUT" THEN <<>>
                                            ELSE chains[c].rules
                                      /\ "policy" \in DOMAIN out[t][c]
                                            <=> chains[c].policy # "None"
                                      /\ "policy" \in DOMAIN out[t][c]
                                            => out[t][c].policy = chains[c].policy

\* C35 witness: dump() has returned on a device where block() has put a rule
\* into the IPv4 output-policy chain and port rules into the input-policy
\* chain, and whose IPv6 nat table has a chain named WOTT_OUTPUT with a rule:
\* both WOTT_OUTPUT entries are reported without rules, the input-policy chain
\* with its rules, and the user chains without policy.
C35_Witness ==
    /\ inv[1].op = "dump"
    /\ inv[1].pc = "done"
    /\ fw[FALSE][OUTPUT_CHAIN].rules # <<>>
    /\ fw[FALSE][INPUT_CHAIN].rules # <<>>
    /\ inv[1].tables["v4"]["filter"][OUTPUT_CHAIN] = [rules |-> <<>>]
    /\ inv[1].tables["v4"]["filter"][INPUT_CHAIN] = [rules |-> fw[FALSE][INPUT_CHAIN].rules]
    /\ inv[1].tables["v4"]["filter"]["INPUT"].policy = "DROP"
    /\ "WOTT_OUTPUT" \in DOMAIN inv[1].seen[TRUE].nat
    /\ inv[1].tables["v6"]["nat"]["WOTT_OUTPUT"] = [rules |-> <<>>]

====
